---- MODULE Spec2Model ----
(***************************************************************************)
(* Model of the incremental Go board engine (board/src/lib.rs): the chain  *)
(* arena, apply_move / undo_move with their modification log, positional   *)
(* superko, the legal move filter and the board hash; the representation   *)
(* parser; the transposition table and the alpha-beta search of            *)
(* evaluation/src/alphabeta.rs; the session store and the request handlers *)
(* of server/src (store.rs, main.rs).                                      *)
(*                                                                         *)
(* Conventions: positions and chain ids are 0-based as in the source; the  *)
(* chain arena Vec<Option<Chain>> is a sequence whose element id+1 is the  *)
(* slot of chain id. Option::None of pos_to_chain is NoChain, a vacated    *)
(* arena slot is NoneChain. HashSet values are sets.                       *)
(***************************************************************************)
EXTENDS Integers, Sequences, FiniteSets, TLC

VARIABLES board, last, snaps, undoRun, parse, table, search, server

vars == <<board, last, snaps, undoRun, parse, table, search, server>>

\* the variables of the parser, the transposition table, the search and the
\* session server; each specification drives its own part of the state and
\* leaves the rest idle
Idle == "idle"

\* ------------------------------------------------------------------ bounds
\* longest history explored
MaxHistory == 2

\* ------------------------------------------------------------- Tile, Turn
Tiles == {"White", "Black", "Dead", "Free"}

Turns == {"White", "Black", "None"}

\* discriminant written by #[derive(Hash)] for Tile
TileDiscriminant(t) ==
    CASE t = "White" -> 0
      [] t = "Black" -> 1
      [] t = "Dead" -> 2
      [] OTHER -> 3

to_char(t) ==
    CASE t = "White" -> "O"
      [] t = "Black" -> "X"
      [] t = "Dead" -> "#"
      [] OTHER -> "."

\* "Invalid" stands for Option::None
from_char(c) ==
    CASE c = "O" -> "White"
      [] c = "X" -> "Black"
      [] c = "#" -> "Dead"
      [] c = "." -> "Free"
      [] OTHER -> "Invalid"

TurnNext(t) ==
    CASE t = "White" -> "Black"
      [] t = "Black" -> "White"
      [] OTHER -> "None"

\* "Invalid" stands for Option::None (Turn::None places nothing)
get_placing_color(t) ==
    CASE t = "Black" -> "Black"
      [] t = "White" -> "White"
      [] OTHER -> "Invalid"

\* ------------------------------------------------------------------ Move
Pass == [kind |-> "Pass", pos |-> 0, x |-> 0, y |-> 0]

Place(p) == [kind |-> "Place", pos |-> p, x |-> 0, y |-> 0]

Coords(cx, cy) == [kind |-> "Coords", pos |-> 0, x |-> cx, y |-> cy]

\* ----------------------------------------------------------------- Chain
NoChain == -1

UsizeMax == -2

Chain(i, t, ps, ls, as) ==
    [some |-> TRUE, id |-> i, tile |-> t, positions |-> ps,
     liberties |-> ls, adjacent |-> as]

NoneChain ==
    [some |-> FALSE, id |-> NoChain, tile |-> "Dead", positions |-> {},
     liberties |-> {}, adjacent |-> {}]

\* ------------------------------------------------------------------- Mod
Assignment(p, o) == [kind |-> "Assignment", a |-> p, b |-> o, chain |-> NoneChain]

Addition(i) == [kind |-> "Addition", a |-> i, b |-> 0, chain |-> NoneChain]

Change(i, c) == [kind |-> "Change", a |-> i, b |-> 0, chain |-> c]

MoveChange(act, t, h, ms) ==
    [action |-> act, previous_turn |-> t, board_hash |-> h, mods |-> ms]

\* ------------------------------------------------------- generic helpers
Min(S) == CHOOSE m \in S : \A o \in S : m <= o

RECURSIVE SetToSeq(_)
\* the elements of a finite set of integers in ascending order
SetToSeq(S) ==
    IF S = {} THEN <<>> ELSE <<Min(S)>> \o SetToSeq(S \ {Min(S)})

Range(s) == {s[i] : i \in 1..Len(s)}

\* ----------------------------------------------------------------- Board
Total(size) == size * size

to_coords(size, pos) == <<pos \div size, pos % size>>

to_pos(size, x, y) == x * size + y

neighbors(size, pos) ==
    LET x == to_coords(size, pos)[1]
        y == to_coords(size, pos)[2]
    IN  (IF x > 0 THEN <<to_pos(size, x - 1, y)>> ELSE <<>>)
        \o (IF x + 1 < size THEN <<to_pos(size, x + 1, y)>> ELSE <<>>)
        \o (IF y > 0 THEN <<to_pos(size, x, y - 1)>> ELSE <<>>)
        \o (IF y + 1 < size THEN <<to_pos(size, x, y + 1)>> ELSE <<>>)

\* self.chains[id] (the Option, before unwrap)
ChainSlot(chains, id) ==
    IF id >= 0 /\ id < Len(chains) THEN chains[id + 1] ELSE NoneChain

\* get_tile on the two fields it reads
TileOf(ptc, chains, pos) ==
    IF ptc[pos] = NoChain THEN "Dead" ELSE ChainSlot(chains, ptc[pos]).tile

get_tile(b, pos) == TileOf(b.pos_to_chain, b.chains, pos)

\* the tile vector as a function of the position
TileVec(b) == [p \in 0..(Total(b.size) - 1) |-> get_tile(b, p)]

RECURSIVE HashTiles(_, _, _, _)
\* The hasher is fed the discriminant of each tile in position order.  The
\* 64-bit digest is modelled by the base-4 fold of that stream; for the
\* boards explored here (at most 9 positions) the fold stays far below 2^64,
\* so no truncation occurs.
HashTiles(tv, p, n, h) ==
    IF p >= n THEN h
    ELSE HashTiles(tv, p + 1, n, h * 4 + TileDiscriminant(tv[p]))

\* a hash that also feeds the turn to the hasher
compute_board_hash_with_turn(b) ==
    HashTiles(TileVec(b), 0, Cardinality(DOMAIN b.pos_to_chain), 0) * 4
        + (CASE b.turn = "White" -> 0 [] b.turn = "Black" -> 1 [] OTHER -> 2)

compute_board_hash(b) ==
    HashTiles(TileVec(b), 0, Cardinality(DOMAIN b.pos_to_chain), 0)

Clone(b) ==
    [size |-> b.size, komi |-> b.komi, turn |-> b.turn,
     chains |-> b.chains, history |-> b.history,
     pos_to_chain |-> b.pos_to_chain]

new(size, starting_turn, komi) ==
    [size |-> size, komi |-> komi, turn |-> starting_turn,
     pos_to_chain |-> [p \in 0..(Total(size) - 1) |-> NoChain],
     chains |-> <<>>, history |-> <<>>]

RECURSIVE FloodLoop(_, _, _, _, _, _, _)
\* the while loop of floodfill; tv is the tile closure as a function
FloodLoop(tv, size, c, queue, positions, adjacent, liberties) ==
    IF queue = <<>>
    THEN [positions |-> positions, adjacent |-> adjacent, liberties |-> liberties]
    ELSE LET cur == Head(queue)
             rest == Tail(queue)
         IN  IF cur \in positions
             THEN FloodLoop(tv, size, c, rest, positions, adjacent, liberties)
             ELSE LET ns == neighbors(size, cur)
                      same == SelectSeq(ns, LAMBDA n : tv[n] = c)
                      other == {n \in Range(ns) : tv[n] # c}
                  IN  FloodLoop(tv, size, c, rest \o same,
                                positions \cup {cur},
                                adjacent \cup other,
                                liberties \cup {n \in other : tv[n] = "Free"})

floodfill(tv, size, pos, id) ==
    LET r == FloodLoop(tv, size, tv[pos], <<pos>>, {}, {}, {})
    IN  Chain(id, tv[pos], r.positions, r.liberties, r.adjacent)

RECURSIVE FromRepLoop(_, _, _, _, _, _)
\* the chain building loop of from_rep over the parsed tiles
FromRepLoop(tv, size, p, seen, ptc, chains) ==
    IF p >= Cardinality(DOMAIN tv) THEN [pos_to_chain |-> ptc, chains |-> chains]
    ELSE IF p \in seen \/ tv[p] = "Dead"
         THEN FromRepLoop(tv, size, p + 1, seen, ptc, chains)
         ELSE LET id == Len(chains)
                  new_chain == floodfill(tv, size, p, id)
              IN  FromRepLoop(tv, size, p + 1, seen \cup new_chain.positions,
                              [q \in DOMAIN ptc |->
                                  IF q \in new_chain.positions THEN id ELSE ptc[q]],
                              Append(chains, new_chain))

\* the value carried in place of a board by an Err result
NoBoard == new(0, "None", 0)

\* from_rep whose shape test only rejects representations that are too short
from_rep_accepts_longer(rep, size, starting_turn, komi) ==
    IF Len(rep) < Total(size)
    THEN [ok |-> FALSE, err |-> "Invalid shape", board |-> NoBoard]
    ELSE IF \E i \in 1..Len(rep) : from_char(rep[i]) = "Invalid"
    THEN [ok |-> FALSE, err |-> "Invalid char", board |-> NoBoard]
    ELSE LET b0 == new(size, starting_turn, komi)
             rep_tiles == [p \in 0..(Total(size) - 1) |-> from_char(rep[p + 1])]
             r == FromRepLoop(rep_tiles, size, 0, {}, b0.pos_to_chain, b0.chains)
         IN  [ok |-> TRUE, err |-> "",
              board |-> [b0 EXCEPT !.pos_to_chain = r.pos_to_chain,
                                   !.chains = r.chains]]

\* rep is a sequence of one byte characters, so that rep.len() is Len(rep);
\* the result carries ok = FALSE for Err
from_rep(rep, size, starting_turn, komi) ==
    IF Len(rep) # Total(size)
    THEN [ok |-> FALSE, err |-> "Invalid shape", board |-> NoBoard]
    ELSE IF \E i \in 1..Len(rep) : from_char(rep[i]) = "Invalid"
    THEN [ok |-> FALSE, err |-> "Invalid char", board |-> NoBoard]
    ELSE LET b0 == new(size, starting_turn, komi)
             rep_tiles == [p \in 0..(Total(size) - 1) |-> from_char(rep[p + 1])]
             r == FromRepLoop(rep_tiles, size, 0, {}, b0.pos_to_chain, b0.chains)
         IN  [ok |-> TRUE, err |-> "",
              board |-> [b0 EXCEPT !.pos_to_chain = r.pos_to_chain,
                                   !.chains = r.chains]]

\* get_rep reading the board column by column
get_rep_transposed(b) ==
    [i \in 1..Total(b.size) |->
        to_char(get_tile(b, to_pos(b.size, (i - 1) % b.size, (i - 1) \div b.size)))]

get_rep(b) == [i \in 1..Total(b.size) |-> to_char(get_tile(b, i - 1))]

\* ------------------------------------------------------- rollback_change
\* UndoMod without the Mod::Change arm: chain contents are not restored
UndoModNoChange(w, m) ==
    CASE m.kind = "Addition" ->
            [w EXCEPT !.chains = SubSeq(@, 1, IF m.a < Len(@) THEN m.a ELSE Len(@))]
      [] m.kind = "Assignment" ->
            [w EXCEPT !.pos_to_chain[m.a] = m.b]
      [] OTHER -> w

\* one arm of the match in rollback_change, on the fields it writes
UndoMod(w, m) ==
    CASE m.kind = "Addition" ->
            [w EXCEPT !.chains = SubSeq(@, 1, IF m.a < Len(@) THEN m.a ELSE Len(@))]
      [] m.kind = "Assignment" ->
            [w EXCEPT !.pos_to_chain[m.a] = m.b]
      [] OTHER ->
            [w EXCEPT !.chains[m.a + 1] = m.chain]

RECURSIVE RollbackModsStopsEarly(_, _, _)
\* the rollback that leaves the first recorded modification in place
RollbackModsStopsEarly(w, mods, i) == IF i <= 1 THEN w ELSE RollbackModsStopsEarly(UndoMod(w, mods[i]), mods, i - 1)

RECURSIVE RollbackMods(_, _, _)
\* for m in change.mods.into_iter().rev()
RollbackMods(w, mods, i) ==
    IF i = 0 THEN w ELSE RollbackMods(UndoMod(w, mods[i]), mods, i - 1)

\* rollback_change without `self.turn = change.previous_turn`
rollback_change_keep_turn(b, change) ==
    LET w == RollbackMods([pos_to_chain |-> b.pos_to_chain, chains |-> b.chains],
                          change.mods, Len(change.mods))
    IN  [b EXCEPT !.pos_to_chain = w.pos_to_chain, !.chains = w.chains]

rollback_change(b, change) ==
    LET w == RollbackMods([pos_to_chain |-> b.pos_to_chain, chains |-> b.chains],
                          change.mods, Len(change.mods))
    IN  [b EXCEPT !.turn = change.previous_turn,
                  !.pos_to_chain = w.pos_to_chain,
                  !.chains = w.chains]

\* ------------------------------------------------------------ apply_move
\* The working state w of a placement is the part of the board it writes
\* plus the modification log: [pos_to_chain, chains, mods].
PushMod(w, m) == [w EXCEPT !.mods = Append(@, m)]

SetChain(w, id, c) == [w EXCEPT !.chains[id + 1] = c]

WTile(w, pos) == TileOf(w.pos_to_chain, w.chains, pos)

\* a capture that gives no liberties back to the chains around it
AdjLoopSkips(w, size, pos, chain_id, adjs, j) == w

RECURSIVE AdjLoop(_, _, _, _, _, _)
\* for adj in adjacents: the neighbours of a captured chain get liberties
\* back.  The iteration order of the HashSet only permutes the snapshots
\* pushed to the log; the loop visits the positions in ascending order.
AdjLoop(w, size, pos, chain_id, adjs, j) ==
    IF j > Len(adjs) THEN w
    ELSE LET adj == adjs[j]
             id == w.pos_to_chain[adj]
             adj_chain == ChainSlot(w.chains, id)
             free_neighbors == {n \in Range(neighbors(size, adj)) : WTile(w, n) = "Free"}
         IN  IF id = NoChain \/ adj = pos \/ id = chain_id
             THEN AdjLoop(w, size, pos, chain_id, adjs, j + 1)
             ELSE AdjLoop(SetChain(PushMod(w, Change(id, adj_chain)), id,
                                   [adj_chain EXCEPT !.liberties = @ \cup free_neighbors]),
                          size, pos, chain_id, adjs, j + 1)

\* the neighbour loop leaving every opponent chain as it is
CaptureLoopKeepsStones(w, size, pos, opponent_color, nbrs, i) == w

RECURSIVE CaptureLoop(_, _, _, _, _, _)
\* for &neighbor in neighbors.iter(): take the liberty pos from opponent
\* chains and capture those left without liberties
CaptureLoop(w, size, pos, opponent_color, nbrs, i) ==
    IF i > Len(nbrs) THEN w
    ELSE LET neighbor == nbrs[i]
             chain_id == w.pos_to_chain[neighbor]
             chain == ChainSlot(w.chains, chain_id)
             w1 == PushMod(w, Change(chain_id, chain))
             libs == chain.liberties \ {pos}
         IN  IF WTile(w, neighbor) # opponent_color
             THEN CaptureLoop(w, size, pos, opponent_color, nbrs, i + 1)
             ELSE IF libs # {}
             THEN CaptureLoop(SetChain(w1, chain_id, [chain EXCEPT !.liberties = libs]),
                              size, pos, opponent_color, nbrs, i + 1)
             ELSE CaptureLoop(
                      AdjLoop(SetChain(w1, chain_id,
                                       [chain EXCEPT !.liberties = libs, !.tile = "Free"]),
                              size, pos, chain_id, SetToSeq(chain.adjacent), 1),
                      size, pos, opponent_color, nbrs, i + 1)

\* ids of the friendly chains next to pos (the HashSet friendly_chains)
friendly_chains(w, nbrs, friendly_color) ==
    {w.pos_to_chain[n] : n \in {m \in Range(nbrs) :
        /\ w.pos_to_chain[m] # NoChain
        /\ ChainSlot(w.chains, w.pos_to_chain[m]).tile = friendly_color}}

\* arm []: the stone becomes a chain of its own
PlaceNew(w, pos, friendly_color, nbrs, free_neighbors) ==
    LET new_id == Len(w.chains)
        new_chain == Chain(new_id, friendly_color, {pos}, free_neighbors, Range(nbrs))
        w1 == PushMod(w, Addition(new_id))
    IN  [w1 EXCEPT !.pos_to_chain[pos] = new_id,
                   !.chains = Append(@, new_chain)]

\* arm [&one]: the stone joins its only friendly neighbour chain
PlaceOne(w, pos, one, free_neighbors, non_friendly_neighbors) ==
    LET chain == ChainSlot(w.chains, one)
        w1 == PushMod(w, Change(one, chain))
        grown == [chain EXCEPT
                    !.liberties = (@ \ {pos}) \cup free_neighbors,
                    !.adjacent = (@ \ {pos}) \cup non_friendly_neighbors,
                    !.positions = @ \cup {pos}]
    IN  [SetChain(w1, one, grown) EXCEPT !.pos_to_chain[pos] = chain.id]

RECURSIVE OthersLoop(_, _, _)
\* for &&other in &many[1..]: collect and vacate the absorbed chains;
\* acc = [w, positions, adjacents, liberties]
OthersLoop(acc, others, i) ==
    IF i > Len(others) THEN acc
    ELSE LET other == others[i]
             chain == ChainSlot(acc.w.chains, other)
         IN  OthersLoop([w |-> SetChain(PushMod(acc.w, Change(other, chain)), other, NoneChain),
                         positions |-> acc.positions \cup chain.positions,
                         adjacents |-> acc.adjacents \cup chain.adjacent,
                         liberties |-> acc.liberties \cup chain.liberties],
                        others, i + 1)

\* absorbed positions that keep pointing at their old chain
ReassignLoopSkips(w, ps, i, survivor_id) == w

RECURSIVE ReassignLoop(_, _, _, _)
\* for &p in positions.iter(): point the absorbed positions at the survivor
ReassignLoop(w, ps, i, survivor_id) ==
    IF i > Len(ps) THEN w
    ELSE ReassignLoop(
            [PushMod(w, Assignment(ps[i], w.pos_to_chain[ps[i]]))
                EXCEPT !.pos_to_chain[ps[i]] = survivor_id],
            ps, i + 1, survivor_id)

\* arm many joining the stone to many[0] only
PlaceManyJoinsFirst(w, pos, first, fc, free_neighbors, non_friendly_neighbors) ==
    PlaceOne(w, pos, first, free_neighbors, non_friendly_neighbors)

\* arm many: first is many[0], the survivor; the others are absorbed
PlaceMany(w, pos, first, fc, free_neighbors, non_friendly_neighbors) ==
    LET acc == OthersLoop([w |-> w, positions |-> {}, adjacents |-> {}, liberties |-> {}],
                          SetToSeq(fc \ {first}), 1)
        adjacents == acc.adjacents \cup non_friendly_neighbors
        liberties == acc.liberties \cup free_neighbors
        survivor == ChainSlot(acc.w.chains, first)
        w1 == PushMod(acc.w, Change(first, survivor))
        w2 == ReassignLoop(w1, SetToSeq(acc.positions), 1, survivor.id)
        merged == [survivor EXCEPT
                    !.positions = (@ \cup acc.positions) \cup {pos},
                    !.adjacent = (@ \cup adjacents) \ {pos},
                    !.liberties = (@ \cup liberties) \ {pos}]
    IN  [SetChain(w2, first, merged) EXCEPT !.pos_to_chain[pos] = survivor.id]

\* The match on friendly_chains.  The slice comes from a HashSet, so which
\* chain is many[0] is not determined: every choice is a result.
PlaceStone(w, pos, friendly_color, nbrs) ==
    LET fc == friendly_chains(w, nbrs, friendly_color)
        free_neighbors == {n \in Range(nbrs) : WTile(w, n) = "Free"}
        non_friendly_neighbors == {n \in Range(nbrs) : WTile(w, n) # friendly_color}
        pos_id == w.pos_to_chain[pos]
        w1 == PushMod(w, Assignment(pos, pos_id))
    IN  IF fc = {}
        THEN {PlaceNew(w1, pos, friendly_color, nbrs, free_neighbors)}
        ELSE IF Cardinality(fc) = 1
        THEN {PlaceOne(w1, pos, CHOOSE one \in fc : TRUE,
                       free_neighbors, non_friendly_neighbors)}
        ELSE {PlaceMany(w1, pos, first, fc, free_neighbors, non_friendly_neighbors) :
                 first \in fc}

RECURSIVE FilterLoop(_, _, _, _)
\* for new_chain in flood_filled: drop the regions that are already chains
FilterLoop(chains, flood_filled, i, filtered) ==
    IF i > Len(flood_filled) THEN filtered
    ELSE LET new_chain == flood_filled[i]
             case1 == \E k \in 1..Len(chains) :
                         chains[k].some /\ chains[k].positions \subseteq new_chain.positions
             case2 == \E k \in 1..Len(filtered) :
                         filtered[k].positions \subseteq new_chain.positions
         IN  FilterLoop(chains, flood_filled, i + 1,
                        IF case1 \/ case2 THEN filtered ELSE Append(filtered, new_chain))

RECURSIVE AddLoopReassignsOne(_, _, _)
\* the loop that points only one position of each new Free chain at it
AddLoopReassignsOne(w, filtered, i) == IF i > Len(filtered) THEN w ELSE AddLoopReassignsOne([PushMod(ReassignLoop(w, <<Min(filtered[i].positions)>>, 1, Len(w.chains)), Addition(Len(w.chains))) EXCEPT !.chains = Append(@, [filtered[i] EXCEPT !.id = Len(w.chains)])], filtered, i + 1)

RECURSIVE AddLoop(_, _, _)
\* for mut new_chain in filtered: append the new Free chains
AddLoop(w, filtered, i) ==
    IF i > Len(filtered) THEN w
    ELSE LET id == Len(w.chains)
             new_chain == [filtered[i] EXCEPT !.id = id]
             w1 == ReassignLoop(w, SetToSeq(new_chain.positions), 1, id)
             w2 == PushMod(w1, Addition(id))
         IN  AddLoop([w2 EXCEPT !.chains = Append(@, new_chain)], filtered, i + 1)

\* the re-derivation that keeps the old Free chain in its slot and points
\* one position of each new chain at it
RefloodFreeKeepsOld(w, size, pos, pos_id, nbrs, initial_free_neighbors) == IF Len(initial_free_neighbors) >= 2 THEN AddLoopReassignsOne(PushMod(w, Change(pos_id, ChainSlot(w.chains, pos_id))), FilterLoop(w.chains, [i \in 1..Len(nbrs) |-> floodfill([p \in DOMAIN w.pos_to_chain |-> WTile(w, p)], size, nbrs[i], UsizeMax)], 1, <<>>), 1) ELSE IF Len(initial_free_neighbors) = 1 THEN SetChain(PushMod(w, Change(pos_id, ChainSlot(w.chains, pos_id))), pos_id, floodfill([p \in DOMAIN w.pos_to_chain |-> WTile(w, p)], size, initial_free_neighbors[1], pos_id)) ELSE SetChain(PushMod(w, Change(pos_id, ChainSlot(w.chains, pos_id))), pos_id, NoneChain)

\* lines 480-542: re-derive the Free chain the stone was played in
RefloodFree(w, size, pos, pos_id, nbrs, initial_free_neighbors) ==
    LET prev_pos_chain == ChainSlot(w.chains, pos_id)
        w1 == PushMod(w, Change(pos_id, prev_pos_chain))
        tv == [p \in DOMAIN w.pos_to_chain |-> WTile(w, p)]
    IN  IF Len(initial_free_neighbors) >= 2
        THEN LET flood_filled == [i \in 1..Len(nbrs) |->
                                     floodfill(tv, size, nbrs[i], UsizeMax)]
                 w2 == SetChain(w1, pos_id, NoneChain)
             IN  AddLoop(w2, FilterLoop(w2.chains, flood_filled, 1, <<>>), 1)
        ELSE IF Len(initial_free_neighbors) = 1
        THEN SetChain(w1, pos_id, floodfill(tv, size, initial_free_neighbors[1], pos_id))
        ELSE SetChain(w1, pos_id, NoneChain)

\* the body of `if let Move::Place(pos) = action`, after the occupied check:
\* the set of working states it can end in
PlaceResults(b, pos) ==
    LET size == b.size
        w0 == [pos_to_chain |-> b.pos_to_chain, chains |-> b.chains, mods |-> <<>>]
        nbrs == SelectSeq(neighbors(size, pos), LAMBDA p : get_tile(b, p) # "Dead")
        friendly_color == get_placing_color(b.turn)
        opponent_color == get_placing_color(TurnNext(b.turn))
        initial_free_neighbors == SelectSeq(nbrs, LAMBDA t : get_tile(b, t) = "Free")
        pos_id == b.pos_to_chain[pos]
        w1 == CaptureLoop(w0, size, pos, opponent_color, nbrs, 1)
    IN  {RefloodFree(w2, size, pos, pos_id, nbrs, initial_free_neighbors) :
            w2 \in PlaceStone(w1, pos, friendly_color, nbrs)}

\* the occupied check looking for opponent stones only
IsOccupiedOpponentOnly(b, pos) ==
    get_tile(b, pos) = get_placing_color(TurnNext(b.turn))

\* line 325
IsOccupied(b, pos) == get_tile(b, pos) # "Free"

\* PassEndsGame without the look at the previous entry
PassEndsGameAnyPrevious(history, action) ==
    /\ action = Pass
    /\ Len(history) > 0

\* lines 545-548: the second of two consecutive passes ends the game
PassEndsGame(history, action) ==
    /\ action = Pass
    /\ Len(history) > 0
    /\ history[Len(history)].action = Pass

\* IsRepetition with the guard len() > 1: a single recorded position is missed
IsRepetitionOffByOne(history, hash) ==
    /\ Len(history) > 1
    /\ \E i \in 1..Len(history) :
          history[i].action # Pass /\ history[i].board_hash = hash

\* IsRepetition without the filter on Pass entries
IsRepetitionAnyAction(history, hash) ==
    /\ Len(history) > 0
    /\ \E i \in 1..Len(history) : history[i].board_hash = hash

\* lines 555-560
IsRepetition(history, hash) ==
    /\ Len(history) > 0
    /\ \E i \in 1..Len(history) :
          history[i].action # Pass /\ history[i].board_hash = hash

\* lines 545-566 for one working state; hash is the hash of the tentative
\* position, reported with the result
FinishMove(b, change0, action, w) ==
    LET b1 == [b EXCEPT !.pos_to_chain = w.pos_to_chain,
                        !.chains = w.chains,
                        !.turn = IF PassEndsGame(b.history, action)
                                 THEN "None" ELSE TurnNext(b.turn)]
        change == [change0 EXCEPT !.mods = w.mods]
        hash == compute_board_hash(b1)
    IN  IF IsRepetition(b1.history, hash)
        THEN [ok |-> FALSE, err |-> "Repetition",
              board |-> rollback_change(b1, change), hash |-> hash]
        ELSE [ok |-> TRUE, err |-> "",
              board |-> [b1 EXCEPT !.history = Append(@, change)], hash |-> hash]

\* apply_move: the set of results (Ok or Err with the board afterwards)
apply_move(b, action0) ==
    IF b.turn = "None"
    THEN {[ok |-> FALSE, err |-> "Game is over", board |-> b,
           hash |-> compute_board_hash(b)]}
    ELSE LET change0 == MoveChange(action0, b.turn, compute_board_hash(b), <<>>)
             action == IF action0.kind = "Coords"
                       THEN Place(to_pos(b.size, action0.x, action0.y))
                       ELSE action0
         IN  IF action.kind = "Place" /\ IsOccupied(b, action.pos)
             THEN {[ok |-> FALSE, err |-> "Tile is occupied", board |-> b,
                    hash |-> compute_board_hash(b)]}
             ELSE {FinishMove(b, change0, action, w) :
                     w \in IF action.kind = "Place"
                           THEN PlaceResults(b, action.pos)
                           ELSE {[pos_to_chain |-> b.pos_to_chain,
                                  chains |-> b.chains, mods |-> <<>>]}}

\* undo_move answering Ok on an empty history
undo_move_ok_on_empty(b) ==
    IF Len(b.history) > 0
    THEN [ok |-> TRUE, err |-> "",
          board |-> rollback_change(
                        [b EXCEPT !.history = SubSeq(@, 1, Len(@) - 1)],
                        b.history[Len(b.history)])]
    ELSE [ok |-> TRUE, err |-> "", board |-> b]

\* undo_move: Ok with the rolled back board, or Err on an empty history
undo_move(b) ==
    IF Len(b.history) > 0
    THEN [ok |-> TRUE, err |-> "",
          board |-> rollback_change(
                        [b EXCEPT !.history = SubSeq(@, 1, Len(@) - 1)],
                        b.history[Len(b.history)])]
    ELSE [ok |-> FALSE, err |-> "No move to undo", board |-> b]

\* ----------------------------------------------------------------- moves
\* the closure of can_place for the single point pos of a Free chain
can_place(b, pos, friendly_color) ==
    \E n \in {m \in Range(neighbors(b.size, pos)) : b.pos_to_chain[m] # NoChain} :
        LET n_chain == ChainSlot(b.chains, b.pos_to_chain[n])
        IN  \/ n_chain.tile = friendly_color /\ Cardinality(n_chain.liberties) >= 2
            \/ /\ n_chain.tile # friendly_color
               /\ Cardinality(n_chain.liberties) = 1
               /\ pos \in n_chain.liberties

\* moves(): the moves the iterator yields, as a set (turn is not None)
moves(b) ==
    LET friendly_color == get_placing_color(b.turn)
        free == {k \in 1..Len(b.chains) : b.chains[k].some /\ b.chains[k].tile = "Free"}
    IN  {Pass}
        \cup UNION {IF Cardinality(b.chains[k].positions) >= 2
                    THEN {Place(p) : p \in b.chains[k].positions}
                    ELSE {Place(p) : p \in {q \in b.chains[k].positions :
                                              can_place(b, q, friendly_color)}}
                    : k \in free}

\* ------------------------------------------------------ the state machine
\* A board is parsed from a representation and then driven by apply_move and
\* undo_move.  last records the latest call and the board it was made on,
\* snaps the board before each move of the history, undoRun the number of
\* undos that succeeded in a row.
Chars == {"X", "O", ".", "#"}

\* every 2x2 representation, and 3x3 positions with a ko, a four chain
\* merge, a double capture and holes
Reps3 ==
    { <<"X", "O", ".",  ".", "X", "O",  ".", ".", ".">>,
      <<".", "X", ".",  "X", ".", "X",  ".", "X", ".">>,
      <<".", "O", "X",  "O", "X", ".",  "X", ".", ".">>,
      <<"#", "O", ".",  ".", "X", ".",  ".", ".", "#">> }

InitBoards ==
    {from_rep(rep, 2, t, 0).board : rep \in [1..4 -> Chars], t \in Turns}
    \cup {from_rep(rep, 3, t, 0).board : rep \in Reps3, t \in {"Black", "White"}}

AllMoves(b) == {Pass} \cup {Place(p) : p \in 0..(Total(b.size) - 1)}

Call(op, mv, r, pre, expect) ==
    [op |-> op, mv |-> mv, ok |-> r.ok, err |-> r.err, hash |-> r.hash,
     pre |-> pre, expect |-> expect]

Init ==
    /\ board \in InitBoards
    /\ last = Call("init", Pass, [ok |-> TRUE, err |-> "", hash |-> 0], board, board)
    /\ snaps = <<>>
    /\ undoRun = 0
    /\ parse = Idle /\ table = Idle /\ search = Idle /\ server = Idle

\* board.apply_move(mv)
DoApply(mv) ==
    \E r \in apply_move(board, mv) :
        /\ r.ok => Len(board.history) < MaxHistory
        /\ board' = r.board
        /\ last' = Call("apply", mv, r, board, board)
        /\ snaps' = IF r.ok THEN Append(snaps, board) ELSE snaps
        /\ undoRun' = 0
        /\ UNCHANGED <<parse, table, search, server>>

ApplyPass == DoApply(Pass)

ApplyPlace == \E p \in 0..(Total(board.size) - 1) : DoApply(Place(p))

\* board.undo_move()
UndoMove ==
    LET r == undo_move(board)
    IN  /\ board' = r.board
        /\ last' = Call("undo", Pass, [r EXCEPT !.board = 0] @@ [hash |-> 0], board,
                        IF snaps = <<>> THEN board ELSE snaps[Len(snaps)])
        /\ snaps' = IF r.ok THEN SubSeq(snaps, 1, Len(snaps) - 1) ELSE snaps
        /\ undoRun' = IF r.ok THEN undoRun + 1 ELSE undoRun
        /\ UNCHANGED <<parse, table, search, server>>

Next == ApplyPass \/ ApplyPlace \/ UndoMove

Spec == Init /\ [][Next]_vars

\* ------------------------------------------------------- model soundness
\* every unwrap of the engine finds a chain: pos_to_chain never points at a
\* vacated or missing slot
UnwrapsSucceed ==
    \A p \in DOMAIN board.pos_to_chain :
        board.pos_to_chain[p] # NoChain => ChainSlot(board.chains, board.pos_to_chain[p]).some

\* ---------------------------------------------------- reference notions
Stones == {"Black", "White"}

Other(t) == IF t = "Black" THEN "White" ELSE "Black"

\* indices of the non-Pass entries of a history
NonPass(history) == {i \in 1..Len(history) : history[i].action # Pass}

\* positions that hold a stone on board a and are Free on board b
CapturedBetween(a, b) ==
    {p \in DOMAIN a.pos_to_chain : get_tile(a, p) \in Stones /\ get_tile(b, p) = "Free"}

\* the latest call was apply_move(Place(pos)) on a Free position of a live game
PlacedOnFree ==
    /\ last.op = "apply"
    /\ last.mv.kind = "Place"
    /\ last.pre.turn # "None"
    /\ get_tile(last.pre, last.mv.pos) = "Free"

\* Placing at pos on b is a suicide by the rules: with the stone on the
\* board no neighbouring opponent chain is without liberties, and the chain
\* of the stone has none.
SuicideAt(b, pos) ==
    LET tv == [TileVec(b) EXCEPT ![pos] = b.turn]
    IN  /\ \A n \in Range(neighbors(b.size, pos)) :
              tv[n] = Other(b.turn) => floodfill(tv, b.size, n, 0).liberties # {}
        /\ floodfill(tv, b.size, pos, 0).liberties = {}

\* ---------------------------------------------------------------- claims
\* C1: after n successful moves and n undos every undo succeeded and the
\* board has the representation, hash, turn and history length it had before
\* the first of the moves.  snaps holds the board before each move of the
\* history, so the undo that takes back move k must land on snaps[k].
C1_UndoRestores ==
    last.op = "undo" =>
        /\ Len(last.pre.history) > 0 => last.ok
        /\ last.ok =>
            /\ get_rep(board) = get_rep(last.expect)
            /\ compute_board_hash(board) = compute_board_hash(last.expect)
            /\ board.turn = last.expect.turn
            /\ Len(board.history) = Len(last.expect.history)
            /\ Len(snaps) = Len(board.history)

\* two undos in a row, the second taking back a capture
C1_Witness ==
    /\ last.op = "undo" /\ last.ok /\ undoRun >= 2
    /\ CapturedBetween(board, last.pre) # {}

\* C2: apply_move is transactional: after an error pos_to_chain, chains,
\* history and turn are what they were before the call.
C2_Transactional ==
    (last.op = "apply" /\ ~last.ok) =>
        /\ board.pos_to_chain = last.pre.pos_to_chain
        /\ board.chains = last.pre.chains
        /\ board.history = last.pre.history
        /\ board.turn = last.pre.turn

\* a placement that was applied tentatively and rolled back
C2_Witness ==
    /\ last.op = "apply" /\ ~last.ok /\ last.err = "Repetition"
    /\ last.hash # compute_board_hash(last.pre)

\* C3: positional superko: the non-Pass entries of history have pairwise
\* different hashes, the current position differs from all of them, and a
\* placement that recreates a recorded position is rejected as Repetition.
C3_Superko ==
    /\ \A i, j \in NonPass(board.history) :
          i # j => board.history[i].board_hash # board.history[j].board_hash
    /\ \A i \in NonPass(board.history) :
          board.history[i].board_hash # compute_board_hash(board)
    /\ (/\ PlacedOnFree
        /\ \E i \in NonPass(last.pre.history) :
              last.pre.history[i].board_hash = last.hash)
       => (~last.ok /\ last.err = "Repetition")

\* the immediate recapture of a ko was rejected
C3_Witness ==
    /\ PlacedOnFree /\ last.err = "Repetition"
    /\ Len(board.history) >= 1
    /\ snaps # <<>>
    /\ CapturedBetween(snaps[Len(snaps)], board) # {}
    /\ get_tile(snaps[Len(snaps)], last.mv.pos) \in Stones

\* C4: a placement on a Free position that captures nothing and leaves its
\* own chain without liberties returns an error and places no stone.
C4_SuicideRejected ==
    (PlacedOnFree /\ SuicideAt(last.pre, last.mv.pos)) =>
        (~last.ok /\ get_tile(board, last.mv.pos) = "Free")

\* C5: a successful Pass after a non-Pass entry (or on an empty history)
\* hands the turn to the other colour, a Pass after a Pass sets turn to
\* None, and with turn None every apply_move fails with the game-over error.
C5_TwoPass ==
    /\ (last.op = "apply" /\ last.mv = Pass /\ last.ok /\ last.pre.turn \in Stones) =>
          IF /\ last.pre.history # <<>>
             /\ last.pre.history[Len(last.pre.history)].action = Pass
          THEN board.turn = "None"
          ELSE board.turn = Other(last.pre.turn)
    /\ (last.op = "apply" /\ last.pre.turn = "None") =>
          (~last.ok /\ last.err = "Game is over")

\* a move attempted after two passes ended the game
C5_Witness ==
    /\ last.op = "apply" /\ last.err = "Game is over"
    /\ Len(board.history) >= 2
    /\ board.history[Len(board.history)].action = Pass
    /\ board.history[Len(board.history) - 1].action = Pass

\* C6: in a live game Place(pos) on a position whose tile is not Free fails
\* with the tile-occupied error.
C6_Occupied ==
    (/\ last.op = "apply" /\ last.mv.kind = "Place"
     /\ last.pre.turn # "None"
     /\ get_rep(last.pre)[last.mv.pos + 1] # ".")
    => (~last.ok /\ last.err = "Tile is occupied")

\* placements on a Dead position and on a stone of the player to move
C6_Witness ==
    /\ last.op = "apply" /\ last.err = "Tile is occupied"
    /\ Len(board.history) >= 1
    /\ get_tile(board, last.mv.pos) \in {"Dead", board.turn}

\* C7: undo_move on an empty history returns an error and leaves the board
\* unchanged.
C7_UndoEmpty ==
    (last.op = "undo" /\ last.pre.history = <<>>) =>
        (~last.ok /\ board = last.pre)

\* the undo after all moves have been undone
C7_Witness ==
    /\ last.op = "undo" /\ ~last.ok /\ undoRun >= 2

\* C8: legal_moves() contains every move apply_move accepts.
C8_LegalMovesComplete ==
    (last.op = "apply" /\ last.ok) => last.mv \in moves(last.pre)

\* C9: with turn not None, legal_moves() contains Pass and apply_move(Pass)
\* succeeds.
C9_PassPlayable ==
    board.turn # "None" =>
        /\ Pass \in moves(board)
        /\ \A r \in apply_move(board, Pass) : r.ok

\* a Pass was accepted on a history that records positions
C9_Witness ==
    /\ last.op = "apply" /\ last.mv = Pass /\ last.ok
    /\ NonPass(board.history) # {}
    /\ board.turn # "None"

\* C10: the hash depends on the tile vector only: the board parsed again
\* from representation() with another turn and komi, a clone, and every
\* earlier board with the same tiles hash like the board.
C10_HashOfTiles ==
    /\ \A t \in Turns \ {board.turn} :
          LET r == from_rep(get_rep(board), board.size, t, board.komi + 1)
          IN  r.ok /\ compute_board_hash(r.board) = compute_board_hash(board)
    /\ compute_board_hash(Clone(board)) = compute_board_hash(board)
    /\ \A i \in 1..Len(snaps) :
          TileVec(snaps[i]) = TileVec(board) =>
              compute_board_hash(snaps[i]) = compute_board_hash(board)
    /\ TileVec(last.pre) = TileVec(board) =>
          compute_board_hash(last.pre) = compute_board_hash(board)

\* after moves and an undo the chain ids differ from those of a fresh parse
C10_Witness ==
    /\ undoRun >= 1 /\ Len(board.history) >= 1
    /\ from_rep(get_rep(board), board.size, "None", 1).board.chains # board.chains

\* =================================================== representation parser
\* A representation is handed to Board::from_rep, directly or through the
\* command line's IO::read_state, or an empty board is built by Board::new;
\* the representation of the resulting board is then read back by get_rep.

\* longest representation handed to the parser
MaxRepLen == 5

ParseSizes == {1, 2}

\* characters that the format allows between the tiles
Separators == {" ", ":", "\n"}

\* the tile characters and a character that is no tile
InputChars == Chars \cup {"x"}

\* the input string: r, with the separator sep in place of character at
\* unless at is 0
InputRep(r, sep, at) == IF at = 0 THEN r ELSE [r EXCEPT ![at] = sep]

\* char::to_lowercase on the input characters
to_lowercase(c) ==
    CASE c = "X" -> "x"
      [] c = "O" -> "o"
      [] OTHER -> c

is_whitespace(c) == c \in {" ", "\n"}

RECURSIVE trim_start(_)
trim_start(s) ==
    IF s # <<>> /\ is_whitespace(Head(s)) THEN trim_start(Tail(s)) ELSE s

RECURSIVE trim_end(_)
trim_end(s) ==
    IF s # <<>> /\ is_whitespace(s[Len(s)])
    THEN trim_end(SubSeq(s, 1, Len(s) - 1)) ELSE s

trim(s) == trim_end(trim_start(s))

\* the representation field as IO::read_state returns it: the line is
\* trimmed and lowercased, the field trimmed again
read_state_rep(s) == trim([i \in 1..Len(trim(s)) |-> to_lowercase(trim(s)[i])])

ParseState(op, rep, size, res, out) ==
    [op |-> op, rep |-> rep, size |-> size, res |-> res, out |-> out]

NoResult == [ok |-> FALSE, err |-> "none", board |-> NoBoard]

InitParse ==
    /\ \E n \in ParseSizes, k \in 0..MaxRepLen :
          \E r \in [1..k -> InputChars], sep \in Separators, at \in 0..k :
              parse = ParseState("input", InputRep(r, sep, at), n, NoResult, <<>>)
    /\ board = NoBoard /\ last = Idle /\ snaps = <<>> /\ undoRun = 0
    /\ table = Idle /\ search = Idle /\ server = Idle

\* Board::from_rep(rep, size, Turn::Black, 0.0)
FromRep ==
    /\ parse.op = "input"
    /\ parse' = ParseState("from_rep", parse.rep, parse.size,
                           from_rep(parse.rep, parse.size, "Black", 0), <<>>)
    /\ UNCHANGED <<board, last, snaps, undoRun, table, search, server>>

\* the command line: IO::read_state, then Board::from_rep on its field
ReadState ==
    /\ parse.op = "input"
    /\ parse' = ParseState("read_state", parse.rep, parse.size,
                           from_rep(read_state_rep(parse.rep), parse.size, "Black", 0),
                           <<>>)
    /\ UNCHANGED <<board, last, snaps, undoRun, table, search, server>>

\* Board::new(size, turn, komi)
NewBoard ==
    /\ parse.op = "input"
    /\ \E t \in Turns, k \in {0, 1} :
          parse' = ParseState("new", parse.rep, parse.size,
                              [ok |-> TRUE, err |-> "", board |-> new(parse.size, t, k)],
                              <<>>)
    /\ UNCHANGED <<board, last, snaps, undoRun, table, search, server>>

\* board.get_rep() on the board that was built
GetRep ==
    /\ parse.op \in {"from_rep", "read_state", "new"}
    /\ parse.res.ok
    /\ parse' = [parse EXCEPT !.op = "get_rep:" \o parse.op,
                              !.out = get_rep(parse.res.board)]
    /\ UNCHANGED <<board, last, snaps, undoRun, table, search, server>>

NextParse == FromRep \/ ReadState \/ NewBoard \/ GetRep

SpecParse == InitParse /\ [][NextParse]_vars

\* the representation without its separators
Strip(s) == SelectSeq(s, LAMBDA c : c \notin Separators)

IsTileString(s, size) ==
    Len(s) = Total(size) /\ \A i \in 1..Len(s) : s[i] \in Chars

\* ----------------------------------------------------------------------- C11
\* C11: for every string r of exactly size*size characters from X, O, ., #,
\* parsing r and reading the representation back yields r, and character i
\* of r is the tile at coordinates (i / size, i % size).
C11_RoundTrip ==
    (parse.op \in {"from_rep", "get_rep:from_rep"}
        /\ IsTileString(parse.rep, parse.size))
    => /\ parse.res.ok
       /\ \A i \in 0..(Total(parse.size) - 1) :
             to_char(get_tile(parse.res.board,
                              to_pos(parse.size, i \div parse.size, i % parse.size)))
                = parse.rep[i + 1]
       /\ parse.op = "get_rep:from_rep" => parse.out = parse.rep

C11_Witness ==
    /\ parse.op = "get_rep:from_rep"
    /\ parse.rep = <<"X", "O", ".", "#">>
    /\ parse.out = <<"X", "O", ".", "#">>

\* ----------------------------------------------------------------------- C12
\* C12: the board returned by Board::new(size, turn, komi) has a Free tile at
\* every position and an empty history.
C12_NewAllFree ==
    parse.op = "new"
    => /\ \A pos \in 0..(Total(parse.size) - 1) :
             get_tile(parse.res.board, pos) = "Free"
       /\ parse.res.board.history = <<>>

\* ----------------------------------------------------------------------- C13
\* C13: from_rep returns an error, and no board, when the length of the
\* representation differs from size*size or when a character is none of
\* X, O, ., #; it returns a board otherwise.
C13_Rejects ==
    parse.op = "from_rep"
    => /\ parse.res.ok <=> IsTileString(parse.rep, parse.size)
       /\ ~parse.res.ok => parse.res.board = NoBoard
       /\ parse.res.ok => parse.res.board.size = parse.size

C13_Witness ==
    /\ parse.op = "from_rep"
    /\ Len(parse.rep) = 5 /\ parse.size = 2
    /\ \A i \in 1..5 : parse.rep[i] \in Chars
    /\ ~parse.res.ok

\* ----------------------------------------------------------------------- C14
\* C14: a representation whose characters, once whitespace, colons and
\* newlines are removed, are exactly size*size tile characters is accepted,
\* and the board is the one parsed from the stripped string.
C14_SeparatorsStripped ==
    (parse.op \in {"from_rep", "read_state"}
        /\ Strip(parse.rep) # parse.rep
        /\ IsTileString(Strip(parse.rep), parse.size))
    => /\ parse.res.ok
       /\ parse.res.board = from_rep(Strip(parse.rep), parse.size, "Black", 0).board

\* ================================================================= scoring
\* Scores are kept as integers: komi is a whole number here and every other
\* term of the f32 sum is a chain length.

RECURSIVE SumSeq(_, _, _)
\* the sum of f(i) for i in lo..hi-1, the accumulation of a for loop
SumSeq(f, lo, hi) == IF lo >= hi THEN 0 ELSE f[lo] + SumSeq(f, lo + 1, hi)

\* the Free branch that pays the region to any stone colour next to it
FreeChainScoreAnyStone(b, c) ==
    LET stones == {a \in c.adjacent : get_tile(b, a) \notin {"Dead", "Free"}}
    IN  IF stones = {} THEN 0
        ELSE LET tile == get_tile(b, Min(stones))
             IN  IF tile = "Black" THEN Cardinality(c.positions)
                 ELSE -Cardinality(c.positions)

\* the Free branch of calculate_heuristic: find_map takes the first stone of
\* the adjacent set; whichever it is, all() then compares every adjacent
\* tile with it, so that the iteration order does not change the result
FreeChainScore(b, c) ==
    LET stones == {a \in c.adjacent : get_tile(b, a) \notin {"Dead", "Free"}}
    IN  IF stones = {} THEN 0
        ELSE LET tile == get_tile(b, Min(stones))
             IN  IF \A a \in c.adjacent : get_tile(b, a) \in {"Dead", tile}
                 THEN IF tile = "Black" THEN Cardinality(c.positions)
                      ELSE -Cardinality(c.positions)
                 ELSE 0

\* the contribution of one arena slot
ChainScore(b, c) ==
    IF ~c.some THEN 0
    ELSE IF c.tile = "Free" THEN FreeChainScore(b, c)
    ELSE IF c.tile = "Black" THEN Cardinality(c.positions)
    ELSE -Cardinality(c.positions)

calculate_heuristic(b) ==
    -b.komi + SumSeq([i \in 1..Len(b.chains) |-> ChainScore(b, b.chains[i])],
                     1, Len(b.chains) + 1)

is_terminal(b) == b.turn = "None"

is_maximizing(b) == b.turn = "Black"

\* --- the score recomputed from the tiles alone
RECURSIVE RegionGrow(_, _, _)
\* the maximal Free region around the Free positions R
RegionGrow(tv, size, R) ==
    LET more == {n \in DOMAIN tv :
                    tv[n] = "Free" /\ n \notin R
                    /\ \E r \in R : n \in Range(neighbors(size, r))}
    IN  IF more = {} THEN R ELSE RegionGrow(tv, size, R \cup more)

RegionBorder(tv, size, R) ==
    {tv[n] : n \in UNION {Range(neighbors(size, r)) : r \in R} \ R}

\* what one position adds to the score
PointScore(tv, size, p) ==
    CASE tv[p] = "Black" -> 1
      [] tv[p] = "White" -> -1
      [] tv[p] = "Dead" -> 0
      [] OTHER ->
            LET border == RegionBorder(tv, size, RegionGrow(tv, size, {p}))
            IN  IF "Black" \in border /\ border \subseteq {"Black", "Dead"} THEN 1
                ELSE IF "White" \in border /\ border \subseteq {"White", "Dead"} THEN -1
                ELSE 0

FloodScore(b, komi) ==
    -komi + SumSeq([p \in 0..(Total(b.size) - 1) |-> PointScore(TileVec(b), b.size, p)],
                   0, Total(b.size))

\* ----------------------------------------------------------------------- C15
\* C15: in every reachable state the score computed from the chains equals
\* the score recomputed from the tiles by flood fill: minus komi, plus one
\* per Black stone, minus one per White stone, plus the size of every
\* maximal Free region bordered by Black (and Dead) only, minus the size of
\* every one bordered by White (and Dead) only, nothing for the others.
C15_ScoreIsFloodScore ==
    \A k \in {0, 1} :
        calculate_heuristic([board EXCEPT !.komi = k]) = FloodScore(board, k)

\* a capture has just turned the captured chain into territory of the capturer
C15_Witness ==
    /\ last.op = "apply" /\ last.ok
    /\ CapturedBetween(last.pre, board) # {}
    /\ \E p \in CapturedBetween(last.pre, board) :
          PointScore(TileVec(board), board.size, p) # 0
    /\ calculate_heuristic(board) = FloodScore(board, board.komi)

\* ===================================================== transposition table
\* TranspositionTable of evaluation/src/alphabeta.rs: entries is the HashMap
\* (a function on the stored keys), inserted the VecDeque of keys.

\* most insert calls made on one table
MaxInserts == 5

\* largest capacity of a table
MaxCapacity == 2

\* u64::MAX, the key that get compares with when inserted is empty; keys are
\* written as signed numbers, all bits set being -1
U64_MAX == -1

Keys == {0, 1, U64_MAX}

TranspositionEntry(depth, value, bound) ==
    [depth |-> depth, value |-> value, bound |-> bound]

\* Option::None of an entry
NoEntry == TranspositionEntry(-1, 0, "None")

\* TranspositionTable::new(capacity)
TableNew(capacity) ==
    [capacity |-> capacity, entries |-> <<>>, inserted |-> <<>>]

\* HashMap::remove and HashMap::insert on entries
MapRemove(f, k) == [x \in DOMAIN f \ {k} |-> f[x]]

MapInsert(f, k, v) == [x \in DOMAIN f \cup {k} |-> IF x = k THEN v ELSE f[x]]

\* table.get(key, depth): the table afterwards and the Option returned
get(t, key, depth) ==
    LET front == IF t.inserted = <<>> THEN U64_MAX ELSE Head(t.inserted)
        rotated == IF front = key
                   THEN (IF t.inserted = <<>> THEN <<>> ELSE Tail(t.inserted))
                            \o <<key>>
                   ELSE t.inserted
    IN  [table |-> [t EXCEPT !.inserted = rotated],
         entry |-> IF key \in DOMAIN t.entries /\ t.entries[key].depth >= depth
                   THEN t.entries[key] ELSE NoEntry]

\* table.insert(key, entry); the unwrap of pop_front needs a key in inserted
insert(t, key, entry) ==
    LET full == Cardinality(DOMAIN t.entries) >= t.capacity
        kept == IF full THEN MapRemove(t.entries, Head(t.inserted)) ELSE t.entries
        queue == IF full THEN Tail(t.inserted) ELSE t.inserted
    IN  [t EXCEPT !.entries = MapInsert(kept, key, entry),
                  !.inserted = Append(queue, key)]

\* last is the latest call: the table before it, the Option it returned, and
\* for every key the number of the insert call that last wrote it
TableCall(op, key, depth, pre, entry, born, count) ==
    [op |-> op, key |-> key, depth |-> depth, pre |-> pre, entry |-> entry,
     born |-> born, preborn |-> IF op = "new" THEN born ELSE last.born,
     count |-> count]

InitTable ==
    /\ \E n \in 1..MaxCapacity : table = TableNew(n)
    /\ last = [op |-> "new", key |-> 0, depth |-> 0, pre |-> table,
               entry |-> NoEntry, born |-> [k \in Keys |-> 0],
               preborn |-> [k \in Keys |-> 0], count |-> 0]
    /\ board = NoBoard /\ snaps = <<>> /\ undoRun = 0
    /\ parse = Idle /\ search = Idle /\ server = Idle

\* table.get(key, depth)
TableGet ==
    \E key \in Keys, depth \in {1, 2} :
        LET r == get(table, key, depth)
        IN  /\ table' = r.table
            /\ last' = TableCall("get", key, depth, table, r.entry,
                                 last.born, last.count)
            /\ UNCHANGED <<board, snaps, undoRun, parse, search, server>>

\* table.insert(key, entry)
TableInsert ==
    \E key \in Keys :
        /\ last.count < MaxInserts
        /\ (Cardinality(DOMAIN table.entries) >= table.capacity
               => table.inserted # <<>>)
        /\ table' = insert(table, key, TranspositionEntry(1, 0, "Exact"))
        /\ last' = TableCall("insert", key, 1, table, NoEntry,
                             [last.born EXCEPT ![key] = last.count + 1],
                             last.count + 1)
        /\ UNCHANGED <<board, snaps, undoRun, parse, search, server>>

NextTable == TableGet \/ TableInsert

SpecTable == InitTable /\ [][NextTable]_vars

\* pop_front().unwrap() of insert never meets an empty queue
TableUnwrapSucceeds ==
    Len(table.inserted) >= Cardinality(DOMAIN table.entries)

Stored(t) == DOMAIN t.entries

\* the stored key whose latest insert is the earliest
Oldest(t, born) == CHOOSE k \in Stored(t) : \A o \in Stored(t) : born[k] <= born[o]

\* ----------------------------------------------------------------------- C18
\* C18: after any sequence of get and insert calls on a table of capacity
\* N >= 1, repeated inserts of a stored key included, the number of stored
\* entries never exceeds N.
C18_CapacityBound == Cardinality(Stored(table)) <= table.capacity

\* ----------------------------------------------------------------------- C19
\* C19: an insert into a table that is at capacity evicts exactly one entry,
\* the one inserted (or re-inserted) earliest among those stored: afterwards
\* the table holds the other stored keys and the inserted key.
C19_FifoEviction ==
    (last.op = "insert" /\ Cardinality(Stored(last.pre)) >= last.pre.capacity)
    => Stored(table)
         = (Stored(last.pre) \ {Oldest(last.pre, last.preborn)}) \cup {last.key}

\* ----------------------------------------------------------------------- C20
\* C20: a probe does not promote: get(key, depth), hit or miss, leaves the
\* stored entries and the eviction order as they were.
C20_ProbeKeepsOrder ==
    last.op = "get"
    => /\ table.entries = last.pre.entries
       /\ table.inserted = last.pre.inserted

\* ======================================================= alpha-beta search
\* AlphaBeta of evaluation/src/alphabeta.rs over the board.  Scores are whole
\* numbers far inside the four f32 limits below.  Wherever the source walks
\* a HashSet (the positions of a Free chain in moves(), the friendly chains
\* of a merge) the walk is ascending or descending, as ord says.

NEG_INFINITY == -1001

F32_MIN == -1000

F32_MAX == 1000

INFINITY == 1001

Max2(a, b) == IF a >= b THEN a ELSE b

Min2(a, b) == IF a <= b THEN a ELSE b

Reverse(s) == [i \in 1..Len(s) |-> s[Len(s) + 1 - i]]

Walk(S, ord) == IF ord = "asc" THEN SetToSeq(S) ELSE Reverse(SetToSeq(S))

RECURSIVE MovesOfChains(_, _, _, _)
\* the for loop of moves() over the arena, from slot k on
MovesOfChains(b, friendly_color, ord, k) ==
    IF k > Len(b.chains) THEN <<>>
    ELSE LET chain == b.chains[k]
             here == IF ~chain.some \/ chain.tile # "Free" THEN <<>>
                     ELSE IF Cardinality(chain.positions) >= 2
                     THEN [i \in 1..Cardinality(chain.positions) |->
                              Place(Walk(chain.positions, ord)[i])]
                     ELSE LET pos == Min(chain.positions)
                          IN  IF can_place(b, pos, friendly_color)
                              THEN <<Place(pos)>> ELSE <<>>
         IN  here \o MovesOfChains(b, friendly_color, ord, k + 1)

\* moves() without the Pass it starts with
moves_vec_no_pass(b, ord) == MovesOfChains(b, get_placing_color(b.turn), ord, 1)

\* moves() as the Vec it collects into
moves_vec(b, ord) ==
    <<Pass>> \o MovesOfChains(b, get_placing_color(b.turn), ord, 1)

\* the result that a walk in the order ord leaves: the merged chain keeps
\* the lowest or the highest id
PickResult(rs, mv, ord) ==
    CHOOSE r \in rs :
        \A o \in rs :
            IF mv.kind # "Place" THEN TRUE
            ELSE IF ord = "asc"
            THEN r.board.pos_to_chain[mv.pos] <= o.board.pos_to_chain[mv.pos]
            ELSE r.board.pos_to_chain[mv.pos] >= o.board.pos_to_chain[mv.pos]

\* node.play(mv): the result of apply_move for the walk ord
play(node, mv, ord) == PickResult(apply_move(node, mv), mv, ord)

\* the evaluator's Option<table>
NoTable == [some |-> FALSE, t |-> TableNew(0)]

SomeTable(t) == [some |-> TRUE, t |-> t]

\* the Bound stored with a value
BoundOf(best_value, original_alpha, beta) ==
    IF best_value <= original_alpha THEN "UpperBound"
    ELSE IF best_value >= beta THEN "LowerBound"
    ELSE "Exact"

\* the state of the for loop of alpha_beta; cuts counts the breaks that left
\* moves unsearched
LoopState(best_value, alpha, beta, tbl, cuts) ==
    [best_value |-> best_value, alpha |-> alpha, beta |-> beta, tbl |-> tbl,
     cuts |-> cuts]

RECURSIVE alpha_beta(_, _, _, _, _, _)
RECURSIVE MovesLoop(_, _, _, _, _, _, _, _, _)
RECURSIVE MovePlayed(_, _, _, _, _, _, _, _, _, _)
RECURSIVE MoveSearched(_, _, _, _, _, _, _, _, _, _)

\* an iteration that breaks as soon as alpha comes within 2 of beta
MoveSearchedCutsEarly(depth, alpha, beta, best_value, mvs, i, ord, sub, back, maximizing) ==
    LET best == IF maximizing THEN Max2(best_value, sub.value)
                ELSE Min2(best_value, sub.value)
        alpha1 == IF maximizing THEN Max2(alpha, best) ELSE alpha
        beta1 == IF maximizing THEN beta ELSE Min2(beta, best)
    IN  IF alpha1 + 2 >= beta1
        THEN LoopState(best, alpha1, beta1, sub.tbl,
                       sub.cuts + (IF i < Len(mvs) THEN 1 ELSE 0))
        ELSE [MovesLoop(sub.tbl, back, depth, alpha1, beta1, best, mvs, i + 1, ord)
                 EXCEPT !.cuts = @ + sub.cuts]

\* the rest of one iteration: value is in sub, node.undo() gave back
MoveSearched(depth, alpha, beta, best_value, mvs, i, ord, sub, back, maximizing) ==
    LET best == IF maximizing THEN Max2(best_value, sub.value)
                ELSE Min2(best_value, sub.value)
        alpha1 == IF maximizing THEN Max2(alpha, best) ELSE alpha
        beta1 == IF maximizing THEN beta ELSE Min2(beta, best)
    IN  IF alpha1 >= beta1
        THEN LoopState(best, alpha1, beta1, sub.tbl,
                       sub.cuts + (IF i < Len(mvs) THEN 1 ELSE 0))
        ELSE [MovesLoop(sub.tbl, back, depth, alpha1, beta1, best, mvs, i + 1, ord)
                 EXCEPT !.cuts = @ + sub.cuts]

\* one iteration once node.play(mv) has returned played
MovePlayed(tbl, node, depth, alpha, beta, best_value, mvs, i, ord, played) ==
    IF ~played.ok
    THEN MovesLoop(tbl, node, depth, alpha, beta, best_value, mvs, i + 1, ord)
    ELSE MoveSearched(depth, alpha, beta, best_value, mvs, i, ord,
                      alpha_beta(tbl, played.board, depth - 1, alpha, beta, ord),
                      undo_move(played.board).board,
                      is_maximizing(undo_move(played.board).board))

\* the for loop of alpha_beta from move i on
MovesLoop(tbl, node, depth, alpha, beta, best_value, mvs, i, ord) ==
    IF i > Len(mvs) THEN LoopState(best_value, alpha, beta, tbl, 0)
    ELSE MovePlayed(tbl, node, depth, alpha, beta, best_value, mvs, i, ord,
                    play(node, mvs[i], ord))

\* the end of alpha_beta: the entry is stored and best_value returned
StoreResult(key, depth, original_alpha, r) ==
    [value |-> r.best_value,
     tbl |-> IF r.tbl.some
             THEN SomeTable(insert(r.tbl.t, key,
                                   TranspositionEntry(depth, r.best_value,
                                       BoundOf(r.best_value, original_alpha, r.beta))))
             ELSE r.tbl,
     cuts |-> r.cuts]

\* lines 106-110: the window after the match on entry.bound
Window(alpha0, beta0, entry) ==
    [alpha |-> IF entry # NoEntry /\ entry.bound = "LowerBound"
               THEN Max2(alpha0, entry.value) ELSE alpha0,
     beta |-> IF entry # NoEntry /\ entry.bound = "UpperBound"
              THEN Max2(beta0, entry.value) ELSE beta0]

\* lines 107 and 112-114: the entry ends the call
Returns(entry, alpha, beta) ==
    entry # NoEntry /\ (entry.bound = "Exact" \/ alpha >= beta)

\* alpha_beta once the table has answered probe
Probed(tbl, node, depth, alpha0, beta0, ord, key, probe) ==
    LET tbl1 == [tbl EXCEPT !.t = probe.table]
        entry == probe.entry
        alpha == Window(alpha0, beta0, probe.entry).alpha
        beta == Window(alpha0, beta0, probe.entry).beta
    IN  IF Returns(entry, alpha, beta)
        THEN [value |-> entry.value, tbl |-> tbl1, cuts |-> 0]
        ELSE IF depth = 0 \/ is_terminal(node)
        THEN [value |-> calculate_heuristic(node), tbl |-> tbl1, cuts |-> 0]
        ELSE StoreResult(key, depth, alpha,
                         MovesLoop(tbl1, node, depth, alpha, beta,
                                   IF is_maximizing(node) THEN NEG_INFINITY
                                   ELSE INFINITY,
                                   moves_vec(node, ord), 1, ord))

\* alpha_beta(node, depth, alpha, beta): the value returned and the table
\* afterwards
alpha_beta(tbl, node, depth, alpha0, beta0, ord) ==
    Probed(tbl, node, depth, alpha0, beta0, ord, compute_board_hash(node),
           IF tbl.some THEN get(tbl.t, compute_board_hash(node), depth)
           ELSE [table |-> tbl.t, entry |-> NoEntry])

\* the outcome of evaluate
Evaluated(pairs, tbl, cuts) == [moves |-> pairs, tbl |-> tbl, cuts |-> cuts]

RECURSIVE EvaluateLoop(_, _, _, _, _, _)
RECURSIVE RootPlayed(_, _, _, _, _, _, _)
RECURSIVE RootSearched(_, _, _, _, _, _)

\* the pair (m, eval) of a root move, then the remaining root moves
RootSearched(root, depth, mvs, i, ord, r) ==
    LET rest == EvaluateLoop(r.tbl, root, depth, mvs, i + 1, ord)
    IN  Evaluated(<<[mv |-> mvs[i], eval |-> r.value]>> \o rest.moves,
                  rest.tbl, rest.cuts + r.cuts)

\* the closure of filter_map once copy.play(m) has returned copy
RootPlayed(tbl, root, depth, mvs, i, ord, copy) ==
    IF ~copy.ok THEN EvaluateLoop(tbl, root, depth, mvs, i + 1, ord)
    ELSE RootSearched(root, depth, mvs, i, ord,
                      alpha_beta(tbl, copy.board, depth, F32_MIN, F32_MAX, ord))

\* evaluate with the root moves searched one after the other
EvaluateLoop(tbl, root, depth, mvs, i, ord) ==
    IF i > Len(mvs) THEN Evaluated(<<>>, tbl, 0)
    ELSE RootPlayed(tbl, root, depth, mvs, i, ord,
                    play(Clone(root), mvs[i], ord))

evaluate(tbl, root, depth, ord) ==
    EvaluateLoop(tbl, root, depth, moves_vec(root, ord), 1, ord)

\* --- an evaluation session (AlphaBetaSession): the root board is moved by
\* apply_move, and evaluate searches every root move with the evaluator's
\* depth and table, one root move after the other

\* deepest search depth of an evaluator
MaxDepth == 2

\* most evaluate calls that one session makes with a table
MaxEvaluations == 2

\* most moves of the session's root
MaxSessionMoves == 1

\* a capacity that no search of the model fills
BigCapacity == 64

\* the 2x2 boards with at most two tiles that are not Free, Black to move
SearchRoots ==
    {from_rep(rep, 2, "Black", 0).board :
        rep \in {r \in [1..4 -> Chars] :
                    Cardinality({i \in 1..4 : r[i] # "."}) <= 2}}

\* the roots without Dead tiles
CacheRoots == {b \in SearchRoots : \A p \in 0..3 : get_tile(b, p) # "Dead"}

Tables == {SomeTable(TableNew(n)) : n \in (1..MaxCapacity) \cup {BigCapacity}}

\* pre is the table before the latest call, moves what evaluate returned
SearchState(op, root, r, evals) ==
    [op |-> op, root |-> root, pre |-> search.tbl, depth |-> search.depth,
     ord |-> search.ord, tbl |-> r.tbl, moves |-> r.moves, cuts |-> r.cuts,
     evals |-> evals]

SearchNew(root, depth, ord, tbl) ==
    [op |-> "new", root |-> root, pre |-> tbl, depth |-> depth, ord |-> ord,
     tbl |-> tbl, moves |-> <<>>, cuts |-> 0, evals |-> 0]

\* AlphaBetaSession::new(root, depth, CacheOption::Disable)
InitSearch ==
    /\ \E root \in SearchRoots, depth \in 0..MaxDepth, ord \in {"asc", "desc"} :
          search = SearchNew(root, depth, ord, NoTable)
    /\ board = NoBoard /\ last = Idle /\ snaps = <<>> /\ undoRun = 0
    /\ parse = Idle /\ table = Idle /\ server = Idle

\* AlphaBetaSession::new(root, depth, CacheOption::Capacity(n))
InitCache ==
    /\ \E root \in CacheRoots, depth \in 0..MaxDepth, ord \in {"asc", "desc"},
          tbl \in Tables :
          search = SearchNew(root, depth, ord, tbl)
    /\ board = NoBoard /\ last = Idle /\ snaps = <<>> /\ undoRun = 0
    /\ parse = Idle /\ table = Idle /\ server = Idle

\* session.evaluate()
SessionEvaluate ==
    /\ ~is_terminal(search.root)
    /\ search.tbl.some => search.evals < MaxEvaluations
    /\ search' = SearchState("evaluate", search.root,
                             evaluate(search.tbl, search.root, search.depth,
                                      search.ord),
                             IF search.tbl.some THEN search.evals + 1
                             ELSE search.evals)
    /\ UNCHANGED <<board, last, snaps, undoRun, parse, table, server>>

\* session.apply_move(mv)
SessionApply ==
    /\ Len(search.root.history) < MaxSessionMoves
    /\ \E mv \in AllMoves(search.root) :
          LET r == play(search.root, mv, search.ord)
          IN  /\ r.ok
              /\ search' = SearchState("apply", r.board,
                                       Evaluated(<<>>, search.tbl, 0), search.evals)
    /\ UNCHANGED <<board, last, snaps, undoRun, parse, table, server>>

NextSearch == SessionEvaluate \/ SessionApply

\* sessions of an evaluator without cache
SpecSearch == InitSearch /\ [][NextSearch]_vars

\* sessions of an evaluator with a transposition table
SpecCache == InitCache /\ [][NextSearch]_vars

\* --- the probe of alpha_beta on its own: entries are stored as at the end
\* of alpha_beta and looked up as at its start; search records the latest
\* lookup
\* most entries stored
MaxStores == 1

\* the values stored with entries and the finite ends of search windows
ProbeValues == {-1, 0, 1}

InitProbe ==
    /\ table = TableNew(BigCapacity)
    /\ search = [op |-> "new", depth |-> 0, alpha0 |-> NEG_INFINITY,
                 beta0 |-> INFINITY, entry |-> NoEntry, alpha |-> NEG_INFINITY,
                 beta |-> INFINITY, returns |-> FALSE, stores |-> 0]
    /\ board = NoBoard /\ last = Idle /\ snaps = <<>> /\ undoRun = 0
    /\ parse = Idle /\ server = Idle

\* lines 156-165: table.insert(key, TranspositionEntry { depth, value, bound })
ProbeStore ==
    /\ search.stores < MaxStores
    /\ \E key \in {0, 1}, depth \in 0..MaxDepth, value \in ProbeValues,
          bound \in {"Exact", "LowerBound", "UpperBound"} :
          table' = insert(table, key, TranspositionEntry(depth, value, bound))
    /\ search' = [search EXCEPT !.op = "store", !.stores = @ + 1]
    /\ UNCHANGED <<board, last, snaps, undoRun, parse, server>>

\* the window a lookup that answered r leaves
ProbeAnswered(depth, alpha0, beta0, r, w) ==
    /\ table' = r.table
    /\ search' = [search EXCEPT !.op = "probe", !.depth = depth,
                     !.alpha0 = alpha0, !.beta0 = beta0, !.entry = r.entry,
                     !.alpha = w.alpha, !.beta = w.beta,
                     !.returns = Returns(r.entry, w.alpha, w.beta)]

\* lines 99-115: the lookup at the start of alpha_beta(node, depth, alpha, beta)
ProbeLookup ==
    /\ \E key \in {0, 1}, depth \in 0..MaxDepth,
          alpha0 \in ProbeValues \cup {NEG_INFINITY},
          beta0 \in ProbeValues \cup {INFINITY} :
          /\ alpha0 < beta0
          /\ ProbeAnswered(depth, alpha0, beta0, get(table, key, depth),
                           Window(alpha0, beta0, get(table, key, depth).entry))
    /\ UNCHANGED <<board, last, snaps, undoRun, parse, server>>

NextProbe == ProbeStore \/ ProbeLookup

SpecProbe == InitProbe /\ [][NextProbe]_vars

\* --- the reference: plain minimax over the moves that are legal by the
\* rules, to the given depth
LegalMoves(b) ==
    {mv \in AllMoves(b) :
        /\ \E r \in apply_move(b, mv) : r.ok
        /\ mv.kind = "Place" => ~SuicideAt(b, mv.pos)}

SetMax(S) == CHOOSE m \in S : \A o \in S : m >= o

RECURSIVE Minimax(_, _)
Minimax(b, depth) ==
    IF depth = 0 \/ b.turn = "None" THEN calculate_heuristic(b)
    ELSE LET values == {Minimax(play(b, mv, "asc").board, depth - 1) :
                           mv \in LegalMoves(b)}
         IN  IF b.turn = "Black" THEN SetMax(values) ELSE Min(values)

\* the root moves with their minimax values
MinimaxMoves(root, depth) ==
    {[mv |-> mv, eval |-> Minimax(play(root, mv, "asc").board, depth)] :
        mv \in LegalMoves(root)}

\* ----------------------------------------------------------------------- C16
\* C16: the transposition cache is a pure accelerator: whatever the root,
\* the depth, the capacity and the earlier evaluations of the session,
\* evaluate with a table reports for every root move the score that
\* evaluate with the cache disabled reports.
C16_CachePureAccelerator ==
    (search.op = "evaluate" /\ search.pre.some)
    => search.moves = evaluate(NoTable, search.root, search.depth, search.ord).moves

\* ----------------------------------------------------------------------- C17
\* C17: with the cache disabled the score evaluate reports for each root
\* move is the value of depth-limited minimax (Black maximizing, White
\* minimizing, the score at depth 0 and at terminal nodes, illegal moves
\* skipped) of the position after the move, and every legal root move is
\* reported.
C17_AlphaBetaIsMinimax ==
    (search.op = "evaluate" /\ ~search.pre.some)
    => Range(search.moves) = MinimaxMoves(search.root, search.depth)

\* a search without cache that cut branches off
C17_Witness ==
    /\ search.op = "evaluate" /\ ~search.pre.some
    /\ search.depth = 2 /\ search.cuts > 0
    /\ Len(search.moves) >= 3
    /\ Range(search.moves) = MinimaxMoves(search.root, search.depth)

\* ========================================================== session server
\* The HTTP layer of server/src: CURRENT_ID, the SessionStore and the
\* request handlers of main.rs, served by several workers at once.  A
\* handler is one step per lock it takes: what it computes on its own copy
\* of a session between two locks belongs to the step of the first lock, and
\* its response to the step of its last lock.  get_session hands out a clone,
\* whose evaluator shares the transposition table of the session (an Arc),
\* so tables holds one table per created session.  The search of an
\* evaluation is a step of its own.  Durations are left out of evaluations.
\* returned, deleted, acked and evaled record what clients have been
\* answered: the ids of the creates, the ids deleted, per session the moves
\* answered Ok and the evaluation returned since.
\* The debug routes ("/" and /session/<id>/error) read like
\* get_session_state and are left out.

\* most requests served
MaxRequests == 4

\* the depth the evaluator is started with (the algorithm parameter)
ParamDepth == 1

\* the workers that serve requests
Workers == {1, 2}

\* the bodies of the create requests: a 2x2 board with a stone of each
\* colour, and malformed data
CreateData ==
    {[rep |-> <<"X", "O", ".", ".">>, size |-> 2, turn |-> "Black", komi |-> 0],
     [rep |-> <<"X", "O", ".">>, size |-> 2, turn |-> "Black", komi |-> 0]}

\* the moves of the move requests: a pass, an occupied point, a free point
RequestMoves == {Pass, Place(0), Coords(1, 0)}

\* the order in which the boards of the sessions walk their HashSets; it
\* decides the order of the moves in an evaluation and nothing else here
SessionWalk == "asc"

\* Option<(Duration, Vec<(Move, f32)>)>
NoCache == [some |-> FALSE, moves |-> <<>>]

SomeCache(mvs) == [some |-> TRUE, moves |-> mvs]

\* root is the board of evaluation_session
Session(id, cache, root) ==
    [session_id |-> id, evaluation_cache |-> cache, root |-> root]

NoSession == Session(0, NoCache, NoBoard)

\* Session::new that reads the counter and does not advance it
Session_new_keeps_counter(current_id, data) == [current_id |-> current_id, ok |-> from_rep(data.rep, data.size, data.turn, data.komi).ok, session |-> Session(current_id + 1, NoCache, from_rep(data.rep, data.size, data.turn, data.komi).board)]

\* Session::new: the counter is advanced before the representation is parsed
Session_new(current_id, data) ==
    LET parsed == from_rep(data.rep, data.size, data.turn, data.komi)
    IN  [current_id |-> current_id + 1, ok |-> parsed.ok,
         session |-> IF parsed.ok
                     THEN Session(current_id + 1, NoCache, parsed.board)
                     ELSE NoSession]

\* the end of Session::apply_move and Session::undo_move: r is what the
\* evaluation session answered
SessionMoved(s, r) ==
    [ok |-> r.ok,
     session |-> IF r.ok
                 THEN [s EXCEPT !.root = r.board, !.evaluation_cache = NoCache]
                 ELSE [s EXCEPT !.root = r.board]]

Session_apply_move(s, mv, ord) == SessionMoved(s, play(s.root, mv, ord))

Session_undo_move(s) == SessionMoved(s, undo_move(s.root))

\* HashMap<usize, Session>::new()
NoSessions == [k \in {} |-> NoSession]

\* HashMap::insert
MapPut(map, k, v) == [j \in DOMAIN map \cup {k} |-> IF j = k THEN v ELSE map[j]]

\* HashMap::get of a ghost map, with the value for a missing key
MapGet(map, k, missing) == IF k \in DOMAIN map THEN map[k] ELSE missing

get_session(sessions, id) ==
    IF id \in DOMAIN sessions THEN [ok |-> TRUE, session |-> sessions[id]]
    ELSE [ok |-> FALSE, session |-> NoSession]

\* update_session that stores nothing
update_session_forgets(sessions, id, session) == sessions

update_session(sessions, id, session) == MapPut(sessions, id, session)

delete_session(sessions, id) ==
    IF id \in DOMAIN sessions
    THEN [ok |-> TRUE, sessions |-> [k \in DOMAIN sessions \ {id} |-> sessions[k]]]
    ELSE [ok |-> FALSE, sessions |-> sessions]

\* the map of lines 131-143: placements are reported as coordinates
ToCoords(b, pairs) ==
    [i \in 1..Len(pairs) |->
        IF pairs[i].mv.kind = "Place"
        THEN [pairs[i] EXCEPT !.mv = Coords(to_coords(b.size, pairs[i].mv.pos)[1],
                                            to_coords(b.size, pairs[i].mv.pos)[2])]
        ELSE pairs[i]]

\* where put_session_move and put_session_undo go after the session
\* answered: on to update_session, or out with NotAcceptable
AfterMoveAlwaysUpdates(ok) == "update"

AfterMove(ok) == IF ok THEN "update" ELSE "idle"

\* --- requests in flight and the latest response
\* the actions recorded in the history of a board
HistoryActions(b) == [i \in 1..Len(b.history) |-> b.history[i].action]

\* the moves a client has been told are on the board: acked so far, then
\* the answer Ok to a move or an undo that ended with board b
Acked(acked, op, b) ==
    IF op = "move" THEN Append(acked, b.history[Len(b.history)].action)
    ELSE SubSeq(acked, 1, Len(acked) - 1)

\* what a handler knew when it started: seen the ids returned by then, ack
\* the moves answered Ok on its session by then, prev the evaluation
\* returned for its session since the latest such move
Known(seen, ack, prev) == [seen |-> seen, ack |-> ack, prev |-> prev]

NothingKnown == Known({}, <<>>, NoCache)

\* a handler between two locks: session is its copy, snap the session it
\* read, moved whether a move or undo of its session has started since
Req(pc, op, id, ok, session, snap, known, moved) ==
    [pc |-> pc, op |-> op, id |-> id, ok |-> ok, session |-> session,
     snap |-> snap, known |-> known, moved |-> moved]

IdleReq == Req("idle", "", 0, TRUE, NoSession, NoSession, NothingKnown, FALSE)

\* a response: session is the session the handler ended with, snap the one
\* it read, moves the evaluation it returned, searched whether it ran the
\* search, pre the session map before the step that answered; known and
\* moved are the handler's
Resp(w, op, id, status, session, mvs, searched, req) ==
    [w |-> w, op |-> op, id |-> id, status |-> status, session |-> session,
     moves |-> mvs, searched |-> searched, snap |-> req.snap,
     known |-> req.known, moved |-> req.moved, pre |-> server.sessions]

NoResp ==
    [w |-> 0, op |-> "", id |-> 0, status |-> "", session |-> NoSession,
     moves |-> <<>>, searched |-> FALSE, snap |-> NoSession,
     known |-> NothingKnown, moved |-> FALSE, pre |-> NoSessions]

InitServer ==
    /\ server = [current_id |-> 0, sessions |-> NoSessions,
                 tables |-> [k \in {} |-> TableNew(0)],
                 reqs |-> [w \in Workers |-> IdleReq], count |-> 0,
                 returned |-> <<>>, deleted |-> {},
                 acked |-> [k \in {} |-> <<>>],
                 evaled |-> [k \in {} |-> NoCache], resp |-> NoResp]
    /\ board = NoBoard /\ last = Idle /\ snaps = <<>> /\ undoRun = 0
    /\ parse = Idle /\ table = Idle /\ search = Idle

\* the ids a request may name: those returned to a client, and one that
\* never was
RequestIds == Range(server.returned) \cup {server.current_id + 1}

\* a request is taken up by the first worker that is idle
Free(w) ==
    /\ server.count < MaxRequests
    /\ server.reqs[w].pc = "idle"
    /\ \A v \in Workers : v < w => server.reqs[v].pc # "idle"

\* --- post_session: Session::new under the CURRENT_ID lock, then the insert
\* under the sessions lock
SessionCreated(w, n) ==
    server' = [server EXCEPT
        !.current_id = n.current_id,
        !.count = @ + 1,
        !.tables = IF n.ok
                   THEN [k \in DOMAIN @ \cup {n.session.session_id} |->
                            IF k = n.session.session_id THEN TableNew(BigCapacity)
                            ELSE @[k]]
                   ELSE @,
        !.reqs[w] = IF n.ok
                    THEN Req("insert", "create", n.session.session_id, TRUE,
                             n.session, NoSession,
                             Known(Range(server.returned), <<>>, NoCache), FALSE)
                    ELSE IdleReq,
        !.resp = IF n.ok THEN @
                 ELSE Resp(w, "create", 0, "BadRequest", NoSession, <<>>, FALSE,
                           IdleReq)]

PostSessionNew(w) ==
    /\ Free(w)
    /\ \E data \in CreateData : SessionCreated(w, Session_new(server.current_id, data))
    /\ UNCHANGED <<board, last, snaps, undoRun, parse, table, search>>

PostSessionInsert(w) ==
    /\ server.reqs[w].pc = "insert"
    /\ server' = [server EXCEPT
          !.sessions = MapPut(@, server.reqs[w].id, server.reqs[w].session),
          !.returned = Append(@, server.reqs[w].id),
          !.reqs[w] = IdleReq,
          !.resp = Resp(w, "create", server.reqs[w].id, "Ok", server.reqs[w].session,
                        <<>>, FALSE, server.reqs[w])]
    /\ UNCHANGED <<board, last, snaps, undoRun, parse, table, search>>

\* --- get_session_state and get_session_list
SessionRead(w, id, g) ==
    server' = [server EXCEPT
        !.count = @ + 1,
        !.resp = Resp(w, "state", id, IF g.ok THEN "Ok" ELSE "NotFound", g.session,
                      <<>>, FALSE, [IdleReq EXCEPT !.snap = g.session])]

GetSessionState(w) ==
    /\ Free(w)
    /\ \E id \in RequestIds : SessionRead(w, id, get_session(server.sessions, id))
    /\ UNCHANGED <<board, last, snaps, undoRun, parse, table, search>>

GetSessionList(w) ==
    /\ Free(w)
    /\ server' = [server EXCEPT
          !.count = @ + 1,
          !.resp = Resp(w, "list", 0, "Ok", NoSession, <<>>, FALSE, IdleReq)]
    /\ UNCHANGED <<board, last, snaps, undoRun, parse, table, search>>

\* --- put_session_move and put_session_undo
\* the evaluations of session id that are searching see a move start
MarkMoved(reqs, id) ==
    [w \in Workers |->
        IF reqs[w].pc = "search" /\ reqs[w].id = id
        THEN [reqs[w] EXCEPT !.moved = TRUE] ELSE reqs[w]]

\* lines 77-83 and 97-102: g is what get_session answered, a what the
\* session answered to the move or the undo
MoveStarted(w, op, id, g, a) ==
    server' = [server EXCEPT
        !.count = @ + 1,
        !.reqs = IF ~g.ok THEN @
                 ELSE MarkMoved(
                        [@ EXCEPT ![w] =
                            IF AfterMove(a.ok) = "update"
                            THEN Req("update", op, id, a.ok, a.session, g.session,
                                     NothingKnown, FALSE)
                            ELSE IdleReq], id),
        !.resp = IF ~g.ok
                 THEN Resp(w, op, id, "NotFound", NoSession, <<>>, FALSE, IdleReq)
                 ELSE IF AfterMove(a.ok) = "update" THEN @
                 ELSE Resp(w, op, id, "NotAcceptable", a.session, <<>>, FALSE,
                           [IdleReq EXCEPT !.snap = g.session])]

\* lines 84-89 and 103-107: update_session and the response
MoveStored(w, op) ==
    /\ server.reqs[w].pc = "update" /\ server.reqs[w].op = op
    /\ server' = [server EXCEPT
          !.sessions = update_session(@, server.reqs[w].id, server.reqs[w].session),
          !.acked = IF server.reqs[w].ok
                    THEN MapPut(@, server.reqs[w].id,
                                Acked(MapGet(@, server.reqs[w].id, <<>>), op,
                                      server.reqs[w].session.root))
                    ELSE @,
          !.evaled = IF server.reqs[w].ok
                     THEN MapPut(@, server.reqs[w].id, NoCache) ELSE @,
          !.reqs[w] = IdleReq,
          !.resp = Resp(w, op, server.reqs[w].id,
                        IF server.reqs[w].ok THEN "Ok" ELSE "NotAcceptable",
                        server.reqs[w].session, <<>>, FALSE, server.reqs[w])]

PutSessionMoveGet(w) ==
    /\ Free(w)
    /\ \E id \in RequestIds, mv \in RequestMoves :
          MoveStarted(w, "move", id, get_session(server.sessions, id),
                      Session_apply_move(get_session(server.sessions, id).session,
                                         mv, SessionWalk))
    /\ UNCHANGED <<board, last, snaps, undoRun, parse, table, search>>

PutSessionMoveUpdate(w) ==
    /\ MoveStored(w, "move")
    /\ UNCHANGED <<board, last, snaps, undoRun, parse, table, search>>

PutSessionUndoGet(w) ==
    /\ Free(w)
    /\ \E id \in RequestIds :
          MoveStarted(w, "undo", id, get_session(server.sessions, id),
                      Session_undo_move(get_session(server.sessions, id).session))
    /\ UNCHANGED <<board, last, snaps, undoRun, parse, table, search>>

PutSessionUndoUpdate(w) ==
    /\ MoveStored(w, "undo")
    /\ UNCHANGED <<board, last, snaps, undoRun, parse, table, search>>

\* --- get_session_evaluation
\* lines 115-123: the cached evaluation is returned, or the search is started
EvaluationStarted(w, id, g) ==
    server' = [server EXCEPT
        !.count = @ + 1,
        !.reqs[w] = IF g.ok /\ ~g.session.evaluation_cache.some
                    THEN Req("search", "evaluate", id, TRUE, g.session, g.session,
                             Known({}, MapGet(server.acked, id, <<>>),
                                   MapGet(server.evaled, id, NoCache)),
                             FALSE)
                    ELSE IdleReq,
        !.resp = IF ~g.ok
                 THEN Resp(w, "evaluate", id, "NotFound", NoSession, <<>>, FALSE,
                           IdleReq)
                 ELSE IF g.session.evaluation_cache.some
                 THEN Resp(w, "evaluate", id, "Ok", g.session,
                           g.session.evaluation_cache.moves, FALSE,
                           [IdleReq EXCEPT
                               !.snap = g.session,
                               !.known = Known({}, MapGet(server.acked, id, <<>>),
                                               MapGet(server.evaled, id, NoCache))])
                 ELSE @]

GetSessionEvaluationGet(w) ==
    /\ Free(w)
    /\ \E id \in RequestIds : EvaluationStarted(w, id, get_session(server.sessions, id))
    /\ UNCHANGED <<board, last, snaps, undoRun, parse, table, search>>

\* lines 125-149 after a search that returned r; nothing is stored
EvaluationDone(w, req, r, mvs) ==
    server' = [server EXCEPT
        !.tables[req.id] = r.tbl.t,
        !.evaled = MapPut(@, req.id, SomeCache(mvs)),
        !.reqs[w] = IdleReq,
        !.resp = Resp(w, "evaluate", req.id, "Ok",
                      [req.session EXCEPT !.evaluation_cache = SomeCache(mvs)],
                      mvs, TRUE, req)]

\* moves() of a finished game panics in the blocking task: the join fails
EvaluationPanicked(w, req) ==
    server' = [server EXCEPT
        !.reqs[w] = IdleReq,
        !.resp = Resp(w, "evaluate", req.id, "InternalServerError", req.session,
                      <<>>, TRUE, req)]

EvaluationSearched(w, req, r) ==
    EvaluationDone(w, req, r, ToCoords(req.session.root, r.moves))

GetSessionEvaluationSearch(w) ==
    /\ server.reqs[w].pc = "search"
    /\ IF is_terminal(server.reqs[w].session.root)
       THEN EvaluationPanicked(w, server.reqs[w])
       ELSE EvaluationSearched(w, server.reqs[w],
                evaluate(SomeTable(server.tables[server.reqs[w].id]),
                         server.reqs[w].session.root, ParamDepth, SessionWalk))
    /\ UNCHANGED <<board, last, snaps, undoRun, parse, table, search>>

\* --- delete_session
SessionDeleted(w, id, d) ==
    server' = [server EXCEPT
        !.count = @ + 1,
        !.sessions = d.sessions,
        !.deleted = IF d.ok THEN @ \cup {id} ELSE @,
        !.resp = Resp(w, "delete", id, IF d.ok THEN "Ok" ELSE "NotFound",
                      NoSession, <<>>, FALSE, IdleReq)]

DeleteSession(w) ==
    /\ Free(w)
    /\ \E id \in RequestIds : SessionDeleted(w, id, delete_session(server.sessions, id))
    /\ UNCHANGED <<board, last, snaps, undoRun, parse, table, search>>

NextServer ==
    \E w \in Workers :
        \/ PostSessionNew(w) \/ PostSessionInsert(w)
        \/ GetSessionState(w) \/ GetSessionList(w)
        \/ PutSessionMoveGet(w) \/ PutSessionMoveUpdate(w)
        \/ PutSessionUndoGet(w) \/ PutSessionUndoUpdate(w)
        \/ GetSessionEvaluationGet(w) \/ GetSessionEvaluationSearch(w)
        \/ DeleteSession(w)

SpecServer == InitServer /\ [][NextServer]_vars

\* the latest response answered a request of kind op with Ok
Answered(op) == server.resp.op = op /\ server.resp.status = "Ok"

\* ----------------------------------------------------------------------- C21
\* C21 as stated: every create returns an id strictly greater than every id
\* returned before it, also when creates run at once or failed before, and
\* no two sessions in the store share an id.
C21_IdsIncreaseInReturnOrder ==
    /\ \A i, j \in 1..Len(server.returned) :
          i < j => server.returned[i] < server.returned[j]
    /\ \A k \in DOMAIN server.sessions : server.sessions[k].session_id = k

\* C21, amended: every create returns an id strictly greater than every id
\* returned before the create started, no id is returned twice, and every
\* session is stored under its own id.  Creates that overlap may answer in
\* the reverse order of their ids.
C21_IdsIncreaseAcrossCalls ==
    /\ Answered("create") => \A i \in server.resp.known.seen : server.resp.id > i
    /\ \A i, j \in 1..Len(server.returned) :
          i # j => server.returned[i] # server.returned[j]
    /\ \A k \in DOMAIN server.sessions : server.sessions[k].session_id = k

\* a create answered after an earlier create and after a create that failed
C21_Witness ==
    /\ Answered("create")
    /\ server.resp.known.seen # {}
    /\ \E k \in 1..(server.resp.id - 1) : k \notin Range(server.returned)
    /\ \A i \in server.resp.known.seen : server.resp.id > i

\* ----------------------------------------------------------------------- C22
\* C22: after a move or an undo answered Ok the session stored under the id
\* has no cached evaluation and its board is the board of the session that
\* read it with the move applied, or with its latest move taken back.
C22_MoveStoredCacheCleared ==
    (Answered("move") \/ Answered("undo"))
    => /\ server.resp.id \in DOMAIN server.sessions
       /\ server.sessions[server.resp.id].evaluation_cache = NoCache
       /\ server.sessions[server.resp.id].session_id = server.resp.id
       /\ LET b == server.sessions[server.resp.id].root
              was == server.resp.snap.root
          IN  IF server.resp.op = "undo"
              THEN b = undo_move(was).board /\ Len(was.history) > 0
              ELSE /\ Len(b.history) = Len(was.history) + 1
                   /\ \E r \in apply_move(was, b.history[Len(b.history)].action) :
                         r.ok /\ r.board = b

\* a stone was placed through the session layer
C22_Witness ==
    /\ Answered("move")
    /\ server.resp.id \in DOMAIN server.sessions
    /\ get_tile(server.resp.snap.root, 2) = "Free"
    /\ get_tile(server.sessions[server.resp.id].root, 2) = "Black"
    /\ server.sessions[server.resp.id].evaluation_cache = NoCache

\* ----------------------------------------------------------------------- C23
\* C23: after an evaluation that ran the search was answered Ok the stored
\* session, if nothing else wrote it meanwhile, holds Some(result) as its
\* cached evaluation; and an evaluation that follows another one with no
\* move or undo of the session since returns the same result without
\* running the search.
C23_EvaluationCached ==
    /\ (/\ Answered("evaluate") /\ server.resp.searched
        /\ server.resp.id \in DOMAIN server.sessions
        /\ server.sessions[server.resp.id] = server.resp.snap)
       => server.sessions[server.resp.id].evaluation_cache
             = SomeCache(server.resp.moves)
    /\ (/\ Answered("evaluate")
        /\ server.resp.known.prev.some /\ ~server.resp.moved)
       => (~server.resp.searched
           /\ server.resp.moves = server.resp.known.prev.moves)

\* ----------------------------------------------------------------------- C24
\* C24: at most one search runs at any time for a session id: no two
\* workers are in the search of evaluations of the same session.
C24_OneSearchPerSession ==
    \A v, w \in Workers :
        (v # w /\ server.reqs[v].pc = "search" /\ server.reqs[w].pc = "search")
        => server.reqs[v].id # server.reqs[w].id

\* ----------------------------------------------------------------------- C25
\* an evaluation that started after moves were answered Ok, and ended before
\* another move or undo of the session started, was computed on the board
\* with those moves
FreshAfterMove ==
    (Answered("evaluate") /\ ~server.resp.moved)
    => HistoryActions(server.resp.session.root) = server.resp.known.ack

\* an evaluation is returned for the board that is stored when it returns
FreshAtReturn ==
    (Answered("evaluate") /\ server.resp.id \in DOMAIN server.sessions)
    => server.sessions[server.resp.id].root = server.resp.session.root

\* C25: evaluation freshness: an evaluate that starts after apply_move(m1)
\* has returned and ends before the next apply_move starts returns scores
\* computed on the board that includes m1, and evaluate never returns an
\* evaluation computed for a board other than the one stored for the session.
C25_EvaluationFresh == FreshAfterMove /\ FreshAtReturn

\* ----------------------------------------------------------------------- C26
\* C26: when a move or an undo of an existing session is rejected, the
\* session map is what it was: the session is still stored under the id
\* with the board, turn, history and cached evaluation that the handler read.
C26_RejectionKeepsSession ==
    (/\ server.resp.op \in {"move", "undo"}
     /\ server.resp.status = "NotAcceptable")
    => /\ server.sessions = server.resp.pre
       /\ server.resp.id \in DOMAIN server.sessions
       /\ server.sessions[server.resp.id] = server.resp.snap
       /\ server.resp.session = server.resp.snap

\* a placement on an occupied point was rejected after a move had been made
C26_Witness ==
    /\ server.resp.op = "move" /\ server.resp.status = "NotAcceptable"
    /\ server.resp.id \in DOMAIN server.sessions
    /\ Len(server.sessions[server.resp.id].root.history) > 0
    /\ server.sessions[server.resp.id] = server.resp.snap

\* ----------------------------------------------------------------------- C27
\* C27: delete answers NotFound and leaves the map alone when the id is not
\* stored; when it is stored, delete answers Ok and removes that session and
\* no other, and from then on the id is not in the store, so that get and a
\* second delete answer NotFound.
C27_DeleteRemoves ==
    /\ server.resp.op = "delete"
       => /\ server.resp.status = "NotFound"
             => (server.resp.id \notin DOMAIN server.resp.pre
                 /\ server.sessions = server.resp.pre)
          /\ server.resp.status = "Ok"
             => (/\ server.resp.id \in DOMAIN server.resp.pre
                 /\ server.sessions =
                       [k \in DOMAIN server.resp.pre \ {server.resp.id} |->
                           server.resp.pre[k]])
    /\ \A id \in server.deleted : id \notin DOMAIN server.sessions

\* ================================================================= playouts
\* The forward half of Node::simulate (montecarlo.rs): while the game is not
\* terminal a move is drawn from moves() until play accepts one.  A draw
\* that play rejects leaves the game as it is and is drawn again, so only
\* accepted moves are steps.  board is the game.
\* most accepted moves of a playout
MaxPlayout == 24

\* the games playouts start from: the 2x2 boards with one or two Dead points
PlayoutBoards ==
    {from_rep(rep, 2, t, 0).board :
        rep \in {r \in [1..4 -> Chars] :
                    Cardinality({i \in 1..4 : r[i] = "#"}) \in {1, 2}},
        t \in {"Black", "White"}}

InitPlayout ==
    /\ board \in PlayoutBoards
    /\ last = Idle /\ snaps = <<>> /\ undoRun = 0
    /\ parse = Idle /\ table = Idle /\ search = Idle /\ server = Idle

\* lines 74-82 once play has answered
Chosen(r) == r.ok /\ board' = r.board

\* lines 70-82: one accepted move of the playout
SimulateStep ==
    /\ ~is_terminal(board)
    /\ Len(board.history) < MaxPlayout
    /\ \E ord \in {"asc", "desc"} :
          \E i \in 1..Len(moves_vec(board, ord)) :
              Chosen(play(board, moves_vec(board, ord)[i], ord))
    /\ UNCHANGED <<last, snaps, undoRun, parse, table, search, server>>

NextPlayout == SimulateStep

SpecPlayout == InitPlayout /\ [][NextPlayout]_vars

\* play accepts one of the moves that can be drawn
Playable ==
    /\ ~is_terminal(board)
    /\ Len(board.history) < MaxPlayout
    /\ \E ord \in {"asc", "desc"} :
          \E i \in 1..Len(moves_vec(board, ord)) :
              play(board, moves_vec(board, ord)[i], ord).ok

\* the loop draws again until a move is accepted: while a move that play
\* accepts can be drawn, one is drawn eventually.  This is
\* WF_vars(NextPlayout) with ENABLED written out as Playable.
SpecPlayoutFair == SpecPlayout /\ (<>[]Playable => []<><<NextPlayout>>_vars)

\* ============================================================== Monte Carlo
\* Node and MonteCarloSession of montecarlo.rs.  Option<Vec<(Action, Node)>>
\* is the pair expanded, children.  total adds up scores, which are whole
\* numbers for komi 0.  max_child draws among the children with the largest
\* UCB1 value; here it may return any child, which includes every child the
\* code can return.  An unwrap that fails sets panicked.
\* most calls of backpropagate on the session's node (evaluate calls it
\* while the time lasts)
MaxIterations == 2

\* most moves applied to a session
MaxTreeMoves == 1

Node_new(maximizing) ==
    [expanded |-> FALSE, children |-> <<>>, maximizing |-> maximizing,
     total |-> 0, visits |-> 0]

\* self.total += value; self.visits += 1
Visited(node, value) == [node EXCEPT !.total = @ + value, !.visits = @ + 1]

\* what expand, simulate and backpropagate leave: the node, the game, the
\* value returned, whether an unwrap failed and whether every nested call of
\* backpropagate returned with the game it was called with
Outcome(node, game, value, panicked, kept) ==
    [node |-> node, game |-> game, value |-> value, panicked |-> panicked,
     kept |-> kept]

RECURSIVE ExpandLoop(_, _, _, _, _, _, _)
RECURSIVE ExpandPlayed(_, _, _, _, _, _, _)
\* the loop body that also lists the moves that play rejected
ExpandPlayedKeepsRejected(node, mvs, i, children, panicked, ord, r) == ExpandLoop(node, IF r.ok THEN undo_move(r.board).board ELSE r.board, mvs, i + 1, Append(children, [mv |-> mvs[i], node |-> Node_new(is_maximizing(r.board))]), panicked \/ (r.ok /\ ~undo_move(r.board).ok), ord)

\* lines 39-46 once game.play(mv) has answered r
ExpandPlayed(node, mvs, i, children, panicked, ord, r) ==
    IF ~r.ok
    THEN ExpandLoop(node, r.board, mvs, i + 1, children, panicked, ord)
    ELSE ExpandLoop(node, undo_move(r.board).board, mvs, i + 1,
                    Append(children, [mv |-> mvs[i],
                                      node |-> Node_new(is_maximizing(r.board))]),
                    panicked \/ ~undo_move(r.board).ok, ord)

\* the for loop of expand from move i on
ExpandLoop(node, game, mvs, i, children, panicked, ord) ==
    IF i > Len(mvs)
    THEN Outcome([node EXCEPT !.expanded = TRUE, !.children = children],
                 game, 0, panicked, TRUE)
    ELSE ExpandPlayed(node, mvs, i, children, panicked, ord,
                      play(game, mvs[i], ord))

\* Node::expand
expand(node, game, ord) ==
    IF node.expanded \/ is_terminal(game)
    THEN Outcome(node, game, 0, FALSE, TRUE)
    ELSE ExpandLoop(node, game, moves_vec(game, ord), 1, <<>>, FALSE, ord)

RECURSIVE simulate(_, _)
\* lines 84-87: value is in sub, game.undo() answered u
SimulateUndone(sub, u) ==
    Outcome(sub.node, u.board, sub.value, sub.panicked \/ ~u.ok, TRUE)

\* lines 77-87 for a draw that play answered with r
SimulatePlayed(r, ord) ==
    IF ~r.ok THEN {}
    ELSE {SimulateUndone(sub, undo_move(sub.game)) : sub \in simulate(r.board, ord)}

\* Node::simulate: the outcomes of the draws
simulate(game, ord) ==
    IF is_terminal(game)
    THEN {Outcome(Node_new(FALSE), game, calculate_heuristic(game), FALSE, TRUE)}
    ELSE UNION {SimulatePlayed(play(game, moves_vec(game, ord)[i], ord), ord) :
                   i \in 1..Len(moves_vec(game, ord))}

RECURSIVE backpropagate(_, _, _)
\* lines 131-137: the child answered c to the game r.board, game.undo() u
ChildDone(e, i, r, c, u) ==
    Outcome(Visited([e.node EXCEPT !.children[i].node = c.node], c.value),
            u.board, c.value, e.panicked \/ c.panicked \/ ~u.ok,
            c.kept /\ c.game = r.board)

\* lines 128-137 for the child i that max_child returned
ChildPlayed(e, i, r, ord) ==
    IF ~r.ok THEN {Outcome(e.node, r.board, 0, TRUE, TRUE)}
    ELSE {ChildDone(e, i, r, c, undo_move(c.game)) :
             c \in backpropagate(e.node.children[i].node, r.board, ord)}

\* lines 140-144
Simulated(e, s) ==
    Outcome(Visited(e.node, s.value), s.game, s.value, e.panicked \/ s.panicked, TRUE)

\* lines 127-144 after the expansion e
Expanded(e, ord) ==
    IF ~e.node.expanded THEN {Simulated(e, s) : s \in simulate(e.game, ord)}
    ELSE IF e.node.children = <<>> THEN {Outcome(e.node, e.game, 0, TRUE, TRUE)}
    ELSE UNION {ChildPlayed(e, i, play(e.game, e.node.children[i].mv, ord), ord) :
                   i \in 1..Len(e.node.children)}

\* Node::backpropagate: the outcomes it can have
backpropagate(node, game, ord) ==
    IF is_terminal(game)
    THEN {Outcome(Visited(node, calculate_heuristic(game)), game,
                  calculate_heuristic(game), FALSE, TRUE)}
    ELSE Expanded(IF node.visits > 0 /\ ~node.expanded
                  THEN expand(node, game, ord)
                  ELSE Outcome(node, game, 0, FALSE, TRUE), ord)

\* --- MonteCarloSession
TreeSession(node, root) == [node |-> node, root |-> root]

\* the result of apply_move and undo_move
TreeResult(ok, session) == [ok |-> ok, session |-> session]

\* lines 209-222 once self.root.play(mv) has succeeded with board root
TreeMoved(s, mv, root) ==
    IF ~s.node.expanded
    THEN TreeResult(TRUE, TreeSession(Node_new(is_maximizing(root)), root))
    ELSE IF \E i \in 1..Len(s.node.children) : s.node.children[i].mv = mv
    THEN TreeResult(TRUE,
             TreeSession(s.node.children[
                             Min({i \in 1..Len(s.node.children) :
                                     s.node.children[i].mv = mv})].node, root))
    ELSE TreeResult(FALSE,
             TreeSession([s.node EXCEPT !.expanded = FALSE, !.children = <<>>], root))

\* MonteCarloSession::apply_move once self.root.play(mv) has answered r
TreePlayed(s, mv, r) ==
    IF ~r.ok THEN TreeResult(FALSE, TreeSession(s.node, r.board))
    ELSE TreeMoved(s, mv, r.board)

\* MonteCarloSession::undo_move once self.root.undo() has answered u
TreeUndone(s, u) ==
    IF ~u.ok THEN TreeResult(FALSE, TreeSession(s.node, u.board))
    ELSE TreeResult(TRUE, TreeSession(Node_new(is_maximizing(u.board)), u.board))

\* the sessions start on the 2x2 boards with two Dead points
TreeRoots ==
    {from_rep(rep, 2, t, 0).board :
        rep \in {r \in [1..4 -> Chars] : Cardinality({i \in 1..4 : r[i] = "#"}) = 2},
        t \in {"Black", "White"}}

\* the moves a client can send: those of AllMoves and their Coords form
TreeMoves(b) ==
    AllMoves(b)
    \cup {Coords(to_coords(b.size, p)[1], to_coords(b.size, p)[2]) :
             p \in 0..(Total(b.size) - 1)}

\* search is the latest call: the session before and after it, what it
\* answered, and for backpropagate its outcome
TreeState(op, mv, pre, session, ok, out, moved) ==
    [op |-> op, mv |-> mv, pre |-> pre, session |-> session, ok |-> ok,
     panicked |-> out.panicked, kept |-> out.kept, game |-> out.game,
     moved |-> moved]

\* MonteCarloSession::new(root, time)
InitTree ==
    /\ \E root \in TreeRoots :
          search = TreeState("new", Pass,
                             TreeSession(Node_new(is_maximizing(root)), root),
                             TreeSession(Node_new(is_maximizing(root)), root),
                             TRUE, Outcome(Node_new(FALSE), root, 0, FALSE, TRUE), 0)
    /\ board = NoBoard /\ last = Idle /\ snaps = <<>> /\ undoRun = 0
    /\ parse = Idle /\ table = Idle /\ server = Idle

\* one pass of the loop of evaluate: self.node.backpropagate(&mut self.root)
TreeBackpropagate ==
    /\ search.session.node.visits < MaxIterations
    /\ \E out \in backpropagate(search.session.node, search.session.root,
                                 SessionWalk) :
              search' = TreeState("backpropagate", Pass, search.session,
                                  TreeSession(out.node, out.game), TRUE, out,
                                  search.moved)
    /\ UNCHANGED <<board, last, snaps, undoRun, parse, table, server>>

\* what apply_move and undo_move leave in search
TreeAnswered(op, mv, r, moved) ==
    search' = TreeState(op, mv, search.session, r.session, r.ok,
                        Outcome(r.session.node, r.session.root, 0, FALSE, TRUE),
                        moved)

\* session.apply_move(mv)
TreeApplyMove ==
    /\ search.moved < MaxTreeMoves
    /\ \E mv \in TreeMoves(search.session.root) :
          TreeAnswered("apply", mv,
                       TreePlayed(search.session, mv,
                                  play(search.session.root, mv, SessionWalk)),
                       search.moved + 1)
    /\ UNCHANGED <<board, last, snaps, undoRun, parse, table, server>>

\* session.undo_move()
TreeUndoMove ==
    /\ TreeAnswered("undo", Pass,
                    TreeUndone(search.session, undo_move(search.session.root)),
                    search.moved)
    /\ UNCHANGED <<board, last, snaps, undoRun, parse, table, server>>

NextTree == TreeBackpropagate \/ TreeApplyMove \/ TreeUndoMove

SpecTree == InitTree /\ [][NextTree]_vars

\* ========================================================= chain invariants
\* the arena slots that hold a chain
LiveChains(b) == {k \in 1..Len(b.chains) : b.chains[k].some}

\* the board the explored history started from
StartBoard == IF snaps = <<>> THEN board ELSE snaps[1]

\* the latest call was a placement that succeeded
Placed == last.op = "apply" /\ last.ok /\ last.mv.kind = "Place"

\* the chains of colour t that the stone of the latest placement touched
TouchedChains(t) ==
    {last.pre.pos_to_chain[n] :
        n \in {m \in Range(neighbors(last.pre.size, last.mv.pos)) :
                  get_tile(last.pre, m) = t}}

\* ----------------------------------------------------------------------- C28
\* C28: in every state reached from a parsed board by moves and undos every
\* position that is not Dead has pos_to_chain pointing at a live chain whose
\* positions contain it, and it is in the positions of no other live chain.
C28_ChainMembership ==
    \A p \in DOMAIN board.pos_to_chain :
        (get_tile(StartBoard, p) # "Dead" \/ get_tile(board, p) # "Dead")
        => /\ board.pos_to_chain[p] # NoChain
           /\ ChainSlot(board.chains, board.pos_to_chain[p]).some
           /\ p \in ChainSlot(board.chains, board.pos_to_chain[p]).positions
           /\ \A k \in LiveChains(board) :
                 p \in board.chains[k].positions => k = board.pos_to_chain[p] + 1

\* a placement merged chains and left a vacated slot in the arena
C28_Witness ==
    /\ Placed
    /\ Cardinality(TouchedChains(last.pre.turn)) >= 2
    /\ \E k \in 1..Len(board.chains) : ~board.chains[k].some
    /\ \A p \in DOMAIN board.pos_to_chain :
          get_tile(board, p) # "Dead"
          => p \in ChainSlot(board.chains, board.pos_to_chain[p]).positions

\* ----------------------------------------------------------------------- C29
\* C29: the liberties stored for each Black or White chain are the Free
\* positions orthogonally adjacent to a member of the chain, also after
\* captures and merges.
C29_LibertiesRecomputed ==
    \A k \in LiveChains(board) :
        board.chains[k].tile \in Stones
        => board.chains[k].liberties =
              {n \in DOMAIN board.pos_to_chain :
                  /\ get_tile(board, n) = "Free"
                  /\ \E p \in board.chains[k].positions :
                        n \in Range(neighbors(board.size, p))}

\* a capture gave a liberty back to a chain that the stone did not join
C29_Witness ==
    /\ Placed
    /\ \E k \in LiveChains(board) :
          /\ board.chains[k].tile \in Stones
          /\ last.mv.pos \notin board.chains[k].positions
          /\ board.chains[k].liberties \cap CapturedBetween(last.pre, board) # {}
          /\ board.chains[k].liberties =
                {n \in DOMAIN board.pos_to_chain :
                    /\ get_tile(board, n) = "Free"
                    /\ \E p \in board.chains[k].positions :
                          n \in Range(neighbors(board.size, p))}

\* ----------------------------------------------------------------------- C30
\* C30: no two distinct live chains of the same stone colour contain
\* orthogonally adjacent positions.
C30_NoAdjacentSameColour ==
    \A j, k \in LiveChains(board) :
        (j # k /\ board.chains[j].tile \in Stones
               /\ board.chains[j].tile = board.chains[k].tile)
        => \A p \in board.chains[j].positions, q \in board.chains[k].positions :
              q \notin Range(neighbors(board.size, p))

\* a placement next to three or more friendly chains left one chain
C30_Witness ==
    /\ Placed
    /\ Cardinality(TouchedChains(last.pre.turn)) >= 3
    /\ \A n \in Range(neighbors(board.size, last.mv.pos)) :
          get_tile(board, n) = get_tile(board, last.mv.pos)
          => board.pos_to_chain[n] = board.pos_to_chain[last.mv.pos]

\* ----------------------------------------------------------------------- C31
\* the Black and White chains of b all have a liberty
AllHaveLiberties(b) ==
    \A k \in LiveChains(b) : b.chains[k].tile \in Stones => b.chains[k].liberties # {}

\* C31: from a parsed board whose stone chains all have a liberty, after
\* every successful apply_move and every undo_move every Black or White
\* chain has at least one liberty.
C31_StoneChainsHaveLiberties ==
    AllHaveLiberties(StartBoard) => AllHaveLiberties(board)

\* ----------------------------------------------------------------------- C35
\* C35: a successful undo_move restores the chain bookkeeping of the board
\* before the move it takes back: pos_to_chain at every position, the length
\* of the arena, its vacated slots and every live chain with its id, tile,
\* positions, liberties and adjacent set.
C35_UndoRestoresChains ==
    (last.op = "undo" /\ last.ok) =>
        /\ board.pos_to_chain = last.expect.pos_to_chain
        /\ Len(board.chains) = Len(last.expect.chains)
        /\ \A k \in 1..Len(board.chains) : board.chains[k] = last.expect.chains[k]

\* the undo of a placement that captured, vacated a slot and grew the arena
C35_Witness ==
    /\ last.op = "undo" /\ last.ok
    /\ CapturedBetween(board, last.pre) # {}
    /\ \E k \in 1..Len(board.chains) : board.chains[k].some /\ ~last.pre.chains[k].some
    /\ Len(last.pre.chains) > Len(board.chains)
    /\ board.chains = last.expect.chains

\* ----------------------------------------------------------------------- C36
\* the Free chains of b
FreeChains(b) == {k \in LiveChains(b) : b.chains[k].tile = "Free"}

\* C36: any two orthogonally adjacent Free positions belong to the same
\* chain, in every state reached by successful moves and undos.
C36_FreeChainsMaximal ==
    \A p \in DOMAIN board.pos_to_chain :
        get_tile(board, p) = "Free"
        => \A n \in Range(neighbors(board.size, p)) :
              get_tile(board, n) = "Free"
              => board.pos_to_chain[n] = board.pos_to_chain[p]

\* a placement without capture split the Free region it was played in
C36_Witness ==
    /\ Placed
    /\ CapturedBetween(last.pre, board) = {}
    /\ Cardinality(FreeChains(board)) > Cardinality(FreeChains(last.pre))
    /\ \A p \in DOMAIN board.pos_to_chain :
          get_tile(board, p) = "Free"
          => \A n \in Range(neighbors(board.size, p)) :
                get_tile(board, n) = "Free"
                => board.pos_to_chain[n] = board.pos_to_chain[p]

\* ----------------------------------------------------------------------- C32
\* C32: on a hit with stored depth at least the current depth the entry only
\* tightens the window: LowerBound sets alpha to max(alpha, value),
\* UpperBound sets beta to min(beta, value) so that beta is never larger
\* than the incoming beta, and Exact returns the stored value.
C32_ProbeTightens ==
    (search.op = "probe" /\ search.entry # NoEntry)
    => /\ search.entry.depth >= search.depth
       /\ search.alpha >= search.alpha0 /\ search.beta <= search.beta0
       /\ search.entry.bound = "LowerBound"
          => (search.alpha = Max2(search.alpha0, search.entry.value)
              /\ search.beta = search.beta0)
       /\ search.entry.bound = "UpperBound"
          => (search.beta = Min2(search.beta0, search.entry.value)
              /\ search.alpha = search.alpha0)
       /\ search.entry.bound = "Exact" => search.returns

\* ----------------------------------------------------------------------- C33
\* C33: no acknowledged move is lost: once no move or undo of a session is
\* waiting to write it back, the history of the stored board holds every
\* move that was answered Ok and not taken back by an undo answered Ok.
C33_NoAcknowledgedMoveLost ==
    \A id \in DOMAIN server.sessions :
        (/\ id \notin server.deleted
         /\ \A w \in Workers : ~(server.reqs[w].pc = "update" /\ server.reqs[w].id = id))
        => HistoryActions(server.sessions[id].root) = MapGet(server.acked, id, <<>>)

\* ----------------------------------------------------------------------- C34
\* C34: a deleted session stays deleted: an id whose delete was answered Ok
\* is not a key of the session map afterwards.
C34_DeletedStaysDeleted == server.deleted \cap DOMAIN server.sessions = {}

\* ----------------------------------------------------------------------- C37
\* C37: play always terminates: a playout, which keeps drawing moves until
\* one is accepted, reaches turn == None after finitely many accepted moves.
C37_PlayoutTerminates == <>(board.turn = "None")

\* a playout of twenty moves with captures ended
C37_Witness ==
    /\ board.turn = "None"
    /\ Len(board.history) >= 20
    /\ Cardinality({i \in 1..Len(board.history) : board.history[i].action.kind = "Place"})
          > Cardinality({p \in DOMAIN board.pos_to_chain : get_tile(board, p) \in Stones})

\* ----------------------------------------------------------------------- C38
\* C38: every call of backpropagate, nested calls included, returns with the
\* game in the state it had at the call, and none of the play and undo calls
\* it unwraps fails.
C38_BackpropagateKeepsGame ==
    search.op = "backpropagate"
    => /\ ~search.panicked
       /\ search.kept
       /\ search.game = search.pre.root

\* a call that went down through an expanded node into a child
C38_Witness ==
    /\ search.op = "backpropagate"
    /\ search.session.node.expanded
    /\ \E i \in 1..Len(search.session.node.children) :
          search.session.node.children[i].node.visits > 0
    /\ Len(search.pre.root.history) > 0
    /\ search.game = search.pre.root

\* ----------------------------------------------------------------------- C39
\* C39: MonteCarloSession::apply_move is atomic: whenever it returns Err the
\* session's root board and its search tree are what they were before.
C39_ApplyMoveAtomic ==
    (search.op = "apply" /\ ~search.ok) => search.session = search.pre

\* ------------------------------------------------------- the flood-fill board
\* Board of src/src/board/board.rs read through tile(): the white, black and
\* dead bit sets as one tile vector, with the turn and the prev list
BitBoard(tv, size, turn, prev) ==
    [tiles |-> tv, size |-> size, turn |-> turn, prev |-> prev]

\* Hash for Board feeds white, black and dead to the hasher; the digest is
\* represented by the three bit sets it is computed from
get_hash(tv) ==
    <<{p \in DOMAIN tv : tv[p] = "White"},
      {p \in DOMAIN tv : tv[p] = "Black"},
      {p \in DOMAIN tv : tv[p] = "Dead"}>>

RECURSIVE GetChainLoop(_, _, _, _, _, _, _)
\* while let Some(cur) = queue.pop_front() of get_chain
GetChainLoop(tv, size, tile, queue, tiles, adjacent, liberties) ==
    IF queue = <<>>
    THEN [tile |-> tile, tiles |-> tiles, adjacent |-> adjacent,
          liberties |-> liberties]
    ELSE LET cur == Head(queue)
             ns == neighbors(size, cur)
             differing == {p \in Range(ns) : tv[p] # tile}
         IN  IF cur \in tiles
             THEN GetChainLoop(tv, size, tile, Tail(queue), tiles, adjacent, liberties)
             ELSE GetChainLoop(tv, size, tile,
                               Tail(queue) \o SelectSeq(ns, LAMBDA p : tv[p] = tile),
                               tiles \cup {cur},
                               adjacent \cup differing,
                               liberties \cup {p \in differing :
                                                 tv[p] = "Free" /\ tile # "Dead"})

get_chain(tv, size, pos) == GetChainLoop(tv, size, tv[pos], <<pos>>, {}, {}, {})

RECURSIVE MakeMoveCaptures(_, _, _, _, _)
\* for aff in self.neighbors(pos): chains of the next colour left without
\* liberties are set Free
MakeMoveCaptures(tv, size, next_tile, nbrs, i) ==
    IF i > Len(nbrs) THEN tv
    ELSE LET chain == get_chain(tv, size, nbrs[i])
         IN  IF tv[nbrs[i]] # next_tile \/ chain.liberties # {}
             THEN MakeMoveCaptures(tv, size, next_tile, nbrs, i + 1)
             ELSE MakeMoveCaptures([p \in DOMAIN tv |->
                                       IF p \in chain.tiles THEN "Free" ELSE tv[p]],
                                   size, next_tile, nbrs, i + 1)

\* the end of make_move on the board after the captures
MakeMoveChecked(bb, pos, tv) ==
    IF get_chain(tv, bb.size, pos).liberties = {}
    THEN [ok |-> FALSE, err |-> "You cannot suicide", board |-> bb]
    ELSE IF \E i \in 1..(Len(bb.prev) + 1) :
                (<<get_hash(bb.tiles)>> \o bb.prev)[i] = get_hash(tv)
    THEN [ok |-> FALSE, err |-> "Repeating move", board |-> bb]
    ELSE [ok |-> TRUE, err |-> "",
          board |-> BitBoard(tv, bb.size, TurnNext(bb.turn),
                             <<get_hash(bb.tiles)>> \o bb.prev)]

\* Board::make_move(pos): Ok with the new board, or Err
make_move(bb, pos) ==
    IF bb.tiles[pos] # "Free"
    THEN [ok |-> FALSE, err |-> "Tile is not free", board |-> bb]
    ELSE IF bb.turn = "None"
    THEN [ok |-> FALSE, err |-> "No tile for Turn::None", board |-> bb]
    ELSE MakeMoveChecked(bb, pos,
             MakeMoveCaptures([bb.tiles EXCEPT ![pos] = get_placing_color(bb.turn)],
                              bb.size, get_placing_color(TurnNext(bb.turn)),
                              neighbors(bb.size, pos), 1))

\* the flood-fill board of the position of b: its tiles and player to move
PositionOf(b) == BitBoard(TileVec(b), b.size, b.turn, <<>>)

\* the last call was a placement on a Free point that both boards accepted
BothAccepted ==
    /\ last.op = "apply" /\ last.ok
    /\ last.mv.kind = "Place"
    /\ get_tile(last.pre, last.mv.pos) = "Free"
    /\ make_move(PositionOf(last.pre), last.mv.pos).ok

\* ----------------------------------------------------------------------- C40
\* C40: for every position and every placement on a Free point that both
\* boards accept, chain-based apply_move and flood-fill make_move give the
\* same tile vector and the same next turn.
C40_EnginesAgree ==
    BothAccepted
    => /\ make_move(PositionOf(last.pre), last.mv.pos).board.tiles = TileVec(board)
       /\ make_move(PositionOf(last.pre), last.mv.pos).board.turn = board.turn

\* an accepted placement that took stones off the board
C40_Witness ==
    /\ BothAccepted
    /\ \E p \in DOMAIN TileVec(board) :
          get_tile(last.pre, p) \in Stones /\ get_tile(board, p) = "Free"
====
